---- MODULE Spec2Model ----
(***************************************************************************)
(* Verification model of the state-and-decision core of rust-pool-cache:   *)
(*   - Coordinator (coordinator.rs): hybrid clock + event trigger          *)
(*   - Calculator task and channel wiring (main.rs)                        *)
(*   - DashMap state layer (dashmap_state.rs)                              *)
(*   - Subscriber event emission (websocket.rs, update_cache_from_pool)    *)
(*                                                                         *)
(* Time: an Instant is a natural number of clock ticks; a millisecond is   *)
(* TicksPerMs ticks, so that sub-millisecond instants exist and            *)
(* Duration::as_millis() really truncates.                                 *)
(***************************************************************************)
EXTENDS Integers, Sequences, FiniteSets, TLC

\* ------------------------------------------------------------------------
\* Bounds of the model
\* ------------------------------------------------------------------------
\* clock resolution: ticks per millisecond
TicksPerMs == 2
\* the run is observed for MaxRunMs milliseconds after start-up
MaxRunMs == 6
\* number of price-change events the Subscriber emits in a run
MaxEvents == 2
\* CoordinatorConfig values used in the runs (milliseconds)
tick_interval_ms == 2
cooldown_ms == 1
\* capacity of the event channel used in the runs
event_channel_capacity == 2
\* number of update_price calls in a run of the state layer
MaxUpdates == 2
MaxChanges == 3
\* bits of an amount (u64 in the source); products are kept in twice as many
WordBits == 3
\* bits of the significand of a floating-point number (53 in an f64)
MantissaBits == 4
\* binary places kept below 1 by the floating-point model
FractionBits == 5
\* largest chain slot carried by an update
MaxSlot == 1

\* connections the Subscriber makes
MaxConn == 2

\* account notifications the server sends
MaxNotifications == 2

\* largest token amount of a vault
MaxAmount == 1

\* largest offset at which a later connection's subscription ids start
MaxSidBase == 2

\* pools in the snapshot handed to the scanners
MaxPools == 3
MaxChain == 21
MaxExtraPools == 1
\* largest max_age_ms / max_slot_spread passed to a snapshot query
MaxAgeMs == 0
MaxSpread == 0

\* ------------------------------------------------------------------------
\* Program constants
\* ------------------------------------------------------------------------
\* main.rs:553  calc_channel_capacity: 1
calc_channel_capacity == 1
\* main.rs:550  high_threshold_percent: 0.2, compared as 0.2 / 100.0 = 0.002;
\* change ratios are counted in units of 0.001, so the threshold is 2
high_threshold == 2

\* ------------------------------------------------------------------------
\* Time helpers (std::time::Duration / Instant)
\* ------------------------------------------------------------------------
\* Duration::from_millis
from_millis(ms) == ms * TicksPerMs

\* Duration::as_millis: whole milliseconds, truncated
as_millis(d) == d \div TicksPerMs

\* Instant::duration_since / Instant::elapsed: saturates at zero
duration_since(later, earlier) == IF later >= earlier THEN later - earlier ELSE 0

\* u64::saturating_sub
saturating_sub(a, b) == IF a >= b THEN a - b ELSE 0

\* the instant at which the process creates its tasks; late enough after the
\* Instant epoch for Instant::checked_sub in Coordinator::new to succeed
StartTime == from_millis(cooldown_ms + 1)

MaxTime == StartTime + from_millis(MaxRunMs)

\* a snapshot is taken late enough for an entry to have outlived the largest
\* max_age_ms
StateMaxTime == StartTime + from_millis(MaxAgeMs + 1)

\* change ratios carried by the events of a run: below, at and above the
\* high threshold
Ratios == (high_threshold - 1) .. (high_threshold + 1)

Pools == {"pool1", "pool2"}

VARIABLES
    now,             \* current Instant
    run_end,         \* the Instant at which the observed run ends
    coordinators,    \* the Coordinator tasks that were spawned
    coordinator_tx,  \* channel pair whose event_tx the WebSocket client holds
    calc_rx,         \* channel pair whose calc_rx the Calculator task owns
    closed,          \* channel ends that were dropped, per kind of end
    event_ch,        \* event_ch[c]: events in flight to coordinator c
    calc_ch,         \* calc_ch[c]: tasks in flight from coordinator c
    last_trigger,    \* last_trigger[c]: Coordinator.last_trigger
    stats,           \* stats[c]: CoordinatorStats
    next_tick,       \* next_tick[c]: deadline of the tokio interval
    calc_pc,         \* Calculator task position: "recv" or "scan"
    scanning,        \* tasks whose scan is in progress
    calc_received,   \* number of tasks the Calculator received, per trigger
    event_tasks,     \* event_tasks[c]: event-triggered tasks built by c
    events_sent,     \* number of events the Subscriber emitted
    prices,          \* DashMapStateLayer.prices: pool_id -> PoolPrice
    upd,             \* upd[t]: position and locals of thread t in update_price
    update_events,   \* the PriceUpdateEvent last sent on update_tx, if any
    updates_started, \* number of update_price calls so far
    snapshot,        \* the last get_consistent_snapshot call and its result
    conn,                   \* number of the WebSocket connection in use
    server_subs,            \* server: subscription_id -> account, this connection
    server_pending,         \* server: subscribe requests not yet confirmed, in order
    server_sid,             \* server: the subscription id it handed out last
    subscription_map,       \* WebSocketClient.subscription_map
    vault_pending_map,      \* WebSocketClient.vault_pending_map
    vault_subscription_map, \* WebSocketClient.vault_subscription_map
    vault_reader,           \* VaultReader: vaults and pool_to_vaults
    pool_data_cache,        \* WebSocketClient.pool_data_cache
    vault_subscription_tx,  \* TRUE while the dynamic subscription channel is set
    vault_rx,               \* SubscriptionRequests queued on that channel
    next_subscription_id,   \* request id counter of process_stream
    ws,                     \* position and locals of the WebSocket task
    proactive,              \* position and locals of the proactive fetch task
    held,                   \* held[task]: Subscriber mutexes the task holds
    sub_log,                \* what the Subscriber did last (observation only)
    scan_pools,             \* the snapshot a Calculator::calculate call works on
    scan,                   \* that call: what the scanners found, what it returned
    walk,                   \* one extract_cycle call: its arguments and what it did
    last_prices,            \* WebSocketClient.last_prices
    price_change_events,    \* the PriceChangeEvent being sent to the Coordinator
    amm                     \* one call of an amm_calculator function: arguments, result

coordVars == <<now, run_end, coordinators, coordinator_tx, calc_rx, closed, event_ch, calc_ch,
               last_trigger, stats, next_tick, calc_pc, scanning,
               calc_received, event_tasks, events_sent>>

stateVars == <<prices, upd, update_events, updates_started, snapshot>>

subVars == <<conn, server_subs, server_pending, server_sid, subscription_map, vault_pending_map,
             vault_subscription_map, vault_reader, pool_data_cache,
             vault_subscription_tx, vault_rx, next_subscription_id, ws, proactive,
             held, sub_log>>

scanVars == <<scan_pools, scan, walk>>

eventVars == <<last_prices, price_change_events>>

callVars == <<amm>>

extVars == <<subVars, scanVars, eventVars, callVars, callVars>>

vars == <<coordVars, stateVars, extVars>>

\* ------------------------------------------------------------------------
\* Coordinator (coordinator.rs)
\* ------------------------------------------------------------------------
CoordinatorStats_default ==
    [total_events |-> 0, triggered_events |-> 0, skipped_triggers |-> 0,
     clock_triggers |-> 0, event_triggers |-> 0, failed_sends |-> 0]

\* variant: last_trigger initialised to Instant::now()
safe_initial_time_now(t) == t

\* Coordinator::new: Instant::now().checked_sub(cooldown + 1ms), falling back
\* to now - 1ms when the subtraction is not representable
safe_initial_time(t) ==
    IF t >= from_millis(cooldown_ms + 1)
    THEN t - from_millis(cooldown_ms + 1)
    ELSE t - from_millis(1)

\* variant: the first tick completes one period after start (interval_at)
interval_first_tick_delayed(t) == t + from_millis(tick_interval_ms)

\* tokio::time::interval: the first tick completes immediately
interval_first_tick(t) == t

\* a channel that never reports Full
try_send_ok_unbounded(ch, cap) == TRUE

\* mpsc::Sender::try_send on a bounded channel
try_send_ok(ch, cap) == Len(ch) < cap

\* self.calc_tx.try_send(task): Ok while the receiver lives and the channel
\* has room; Err(Full) or Err(Closed) otherwise
calc_try_send_ok(c) ==
    /\ c \notin closed.calc_rx
    /\ try_send_ok(calc_ch[c], calc_channel_capacity)

\* variant: the comparison admits the threshold itself
above_threshold_inclusive(pct) == pct >= high_threshold

\* event.price_change_percent > self.config.high_threshold_percent / 100.0
above_threshold(pct) == pct > high_threshold

\* variant: the cooldown window is one millisecond short
cooldown_elapsed_short(elapsed) == elapsed >= from_millis(cooldown_ms - 1)

\* elapsed >= cooldown
cooldown_elapsed(elapsed) == elapsed >= from_millis(cooldown_ms)

ClockTask(t) ==
    [trigger_type |-> "Clock", price_change_percent |-> -1, created_at |-> t]

EventTask(pct, t) ==
    [trigger_type |-> "Event", price_change_percent |-> pct, created_at |-> t]

\* select! branch A: the interval ticked
Tick(c) ==
    /\ c \in coordinators
    /\ now >= next_tick[c]
    /\ next_tick' = [next_tick EXCEPT ![c] = @ + from_millis(tick_interval_ms)]
    /\ IF calc_try_send_ok(c)
       THEN /\ calc_ch' = [calc_ch EXCEPT ![c] = Append(@, ClockTask(now))]
            /\ stats' = [stats EXCEPT ![c].clock_triggers = @ + 1]
       ELSE /\ calc_ch' = calc_ch
            /\ stats' = [stats EXCEPT ![c].failed_sends = @ + 1]
    /\ UNCHANGED <<now, run_end, coordinators, coordinator_tx, calc_rx, closed, event_ch,
                   last_trigger, calc_pc, scanning, calc_received,
                   event_tasks, events_sent, stateVars, extVars>>

\* select! branch B: an event was received
HandleEvent(c) ==
    /\ c \in coordinators
    /\ event_ch[c] # <<>>
    /\ LET event == Head(event_ch[c])
           pct == event.price_change_percent
           s1 == [stats[c] EXCEPT !.total_events = @ + 1]
       IN  /\ event_ch' = [event_ch EXCEPT ![c] = Tail(@)]
           /\ IF above_threshold(pct)
              THEN LET s2 == [s1 EXCEPT !.triggered_events = @ + 1]
                       elapsed == duration_since(now, last_trigger[c])
                   IN  IF cooldown_elapsed(elapsed)
                       THEN /\ last_trigger' = [last_trigger EXCEPT ![c] = now]
                            /\ IF calc_try_send_ok(c)
                               THEN /\ calc_ch' = [calc_ch EXCEPT ![c] =
                                                     Append(@, EventTask(pct, now))]
                                    /\ stats' = [stats EXCEPT ![c] =
                                                   [s2 EXCEPT !.event_triggers = @ + 1]]
                                    /\ event_tasks' = [event_tasks EXCEPT ![c] =
                                          Append(@, [task |-> EventTask(pct, now),
                                                     sent |-> TRUE])]
                               ELSE /\ calc_ch' = calc_ch
                                    /\ stats' = [stats EXCEPT ![c] =
                                                   [s2 EXCEPT !.failed_sends = @ + 1]]
                                    /\ event_tasks' = [event_tasks EXCEPT ![c] =
                                          Append(@, [task |-> EventTask(pct, now),
                                                     sent |-> FALSE])]
                       ELSE /\ stats' = [stats EXCEPT ![c] =
                                           [s2 EXCEPT !.skipped_triggers = @ + 1]]
                            /\ UNCHANGED <<last_trigger, calc_ch, event_tasks>>
              ELSE /\ stats' = [stats EXCEPT ![c] = s1]
                   /\ UNCHANGED <<last_trigger, calc_ch, event_tasks>>
    /\ UNCHANGED <<now, run_end, coordinators, coordinator_tx, calc_rx, closed, next_tick,
                   calc_pc, scanning, calc_received, events_sent, stateVars, extVars>>

\* ------------------------------------------------------------------------
\* Subscriber: update_cache_from_pool sends the event with try_send
\* ------------------------------------------------------------------------
SendEvent(pool, pct) ==
    /\ coordinator_tx \notin closed.event_tx
    /\ events_sent < MaxEvents
    /\ events_sent' = events_sent + 1
    /\ LET event == [pool_id |-> pool, price_change_percent |-> pct]
       IN  IF try_send_ok(event_ch[coordinator_tx], event_channel_capacity)
           THEN event_ch' = [event_ch EXCEPT ![coordinator_tx] = Append(@, event)]
           ELSE event_ch' = event_ch
    /\ UNCHANGED <<now, run_end, coordinators, coordinator_tx, calc_rx, closed, calc_ch,
                   last_trigger, stats, next_tick, calc_pc, scanning,
                   calc_received, event_tasks, stateVars, extVars>>

\* ------------------------------------------------------------------------
\* Calculator task (main.rs)
\* ------------------------------------------------------------------------
\* variant: each scan is spawned and the loop goes straight back to recv
calc_can_recv_spawned(pc) == pc \in {"recv", "scan"}

\* while let Some(task) = calc_rx.recv().await { ...scan...  }: recv is
\* reached only when the loop body, the scan included, has completed
calc_can_recv(pc) == pc = "recv"

CalcRecv ==
    /\ calc_can_recv(calc_pc)
    /\ calc_ch[calc_rx] # <<>>
    /\ LET task == Head(calc_ch[calc_rx])
       IN  /\ scanning' = Append(scanning, task)
           /\ calc_received' = [calc_received EXCEPT ![task.trigger_type] = @ + 1]
    /\ calc_ch' = [calc_ch EXCEPT ![calc_rx] = Tail(@)]
    /\ calc_pc' = "scan"
    /\ UNCHANGED <<now, run_end, coordinators, coordinator_tx, calc_rx, closed, event_ch,
                   last_trigger, stats, next_tick, event_tasks, events_sent,
                   stateVars, extVars>>

\* find_optimal_routes(...).await returned
ScanDone ==
    /\ calc_pc = "scan"
    /\ scanning # <<>>
    /\ scanning' = Tail(scanning)
    /\ calc_pc' = "recv"
    /\ UNCHANGED <<now, run_end, coordinators, coordinator_tx, calc_rx, closed, event_ch, calc_ch,
                   last_trigger, stats, next_tick, calc_received, event_tasks,
                   events_sent, stateVars, extVars>>

\* calc_rx.recv() returned None: every sender is gone and the channel is
\* empty; the while let loop ends and the task logs its shutdown
CalcRecvNone ==
    /\ calc_can_recv(calc_pc)
    /\ calc_ch[calc_rx] = <<>>
    /\ calc_rx \in closed.calc_tx
    /\ calc_pc' = "ended"
    /\ closed' = [closed EXCEPT !.calc_rx = @ \cup {calc_rx}]
    /\ UNCHANGED <<now, run_end, coordinators, coordinator_tx, calc_rx, event_ch, calc_ch,
                   last_trigger, stats, next_tick, scanning, calc_received,
                   event_tasks, events_sent, stateVars, extVars>>

\* ------------------------------------------------------------------------
\* Shutdown: channel ends dropped from outside the two loops
\* ------------------------------------------------------------------------
\* the WebSocket client, the only holder of event_tx, is dropped
DropEventSender ==
    /\ coordinator_tx \notin closed.event_tx
    /\ closed' = [closed EXCEPT !.event_tx = @ \cup {coordinator_tx}]
    /\ UNCHANGED <<now, run_end, coordinators, coordinator_tx, calc_rx, event_ch, calc_ch,
                   last_trigger, stats, next_tick, calc_pc, scanning,
                   calc_received, event_tasks, events_sent, stateVars, extVars>>

\* the Calculator task is cancelled and its calc_rx dropped with it
DropCalcReceiver ==
    /\ calc_pc \in {"recv", "scan"}
    /\ calc_pc' = "cancelled"
    /\ scanning' = <<>>
    /\ closed' = [closed EXCEPT !.calc_rx = @ \cup {calc_rx}]
    /\ UNCHANGED <<now, run_end, coordinators, coordinator_tx, calc_rx, event_ch, calc_ch,
                   last_trigger, stats, next_tick, calc_received,
                   event_tasks, events_sent, stateVars, extVars>>

\* the Coordinator task is cancelled: its event_rx and calc_tx are dropped
DropCoordinator(c) ==
    /\ c \in coordinators
    /\ coordinators' = coordinators \ {c}
    /\ closed' = [closed EXCEPT !.calc_tx = @ \cup {c}]
    /\ UNCHANGED <<now, run_end, coordinator_tx, calc_rx, event_ch, calc_ch,
                   last_trigger, stats, next_tick, calc_pc, scanning,
                   calc_received, event_tasks, events_sent, stateVars, extVars>>

\* ------------------------------------------------------------------------
\* DashMap state layer (dashmap_state.rs)
\* ------------------------------------------------------------------------
Threads == {1, 2}

\* prices (f64) are counted in price units; 0 is "price undefined"
Prices == {0, 200000, 200001}

\* Option::None for an old price
None == -1

\* update_price without its noise filter: every change of a defined price
\* is reported as computed
price_change_keeping_noise(old, new) ==
    IF old # None
    THEN IF new = 0 \/ old = 0
         THEN 0
         ELSE ((IF new >= old THEN new - old ELSE old - new) * 100 * 10000) \div old
    ELSE IF new = 0 THEN 0 ELSE 100 * 10000

\* price_change_percent computed by update_price, in units of 0.0001 %
\* (so that "change < 0.001" is "less than ten units")
price_change(old, new) ==
    IF old # None
    THEN IF new = 0 \/ old = 0
         THEN 0
         ELSE LET diff == IF new >= old THEN new - old ELSE old - new
                  change == (diff * 100 * 10000) \div old
              IN  IF change < 10 THEN 0 ELSE change
    ELSE IF new = 0 THEN 0 ELSE 100 * 10000

\* self.prices.get(pool_id).map(|entry| entry.price)
get_old_price(map, pool_id) ==
    IF pool_id \in DOMAIN map THEN map[pool_id].price ELSE None

\* self.prices.insert(pool_id, pool_price)
insert(map, pool_id, pool_price) ==
    [q \in (DOMAIN map) \cup {pool_id} |->
        IF q = pool_id THEN pool_price ELSE map[q]]

\* self.prices.iter().map(|entry| entry.slot).max().unwrap_or(0)
get_latest_slot(map) ==
    IF DOMAIN map = {}
    THEN 0
    ELSE CHOOSE s \in {map[q].slot : q \in DOMAIN map} :
            \A q \in DOMAIN map : map[q].slot <= s

\* variant: no early return when the latest slot is 0
get_consistent_snapshot_no_early_return(map, t, max_age_ms, max_slot_spread) ==
    LET latest_slot == get_latest_slot(map)
    IN  {map[q] : q \in {r \in DOMAIN map :
            LET age_ms == as_millis(duration_since(t, map[r].last_update))
                slot_diff == saturating_sub(latest_slot, map[r].slot)
            IN  /\ ~(age_ms > max_age_ms)
                /\ slot_diff <= max_slot_spread}}

\* get_consistent_snapshot(max_age_ms, max_slot_spread), called at instant t
get_consistent_snapshot(map, t, max_age_ms, max_slot_spread) ==
    LET latest_slot == get_latest_slot(map)
    IN  IF latest_slot = 0
        THEN {}
        ELSE {map[q] : q \in {r \in DOMAIN map :
                LET age_ms == as_millis(duration_since(t, map[r].last_update))
                    slot_diff == saturating_sub(latest_slot, map[r].slot)
                IN  /\ ~(age_ms > max_age_ms)
                    /\ slot_diff <= max_slot_spread}}

upd_idle == [pc |-> "idle"]

\* update_price, first step: the caller built pool_price (last_update =
\* Instant::now()); the old price is read and the change is computed
UpdateGet(t, pool, price, slot) ==
    /\ upd[t].pc = "idle"
    /\ updates_started < MaxUpdates
    /\ updates_started' = updates_started + 1
    /\ LET old_price == get_old_price(prices, pool)
       IN  upd' = [upd EXCEPT ![t] =
                [pc |-> "insert",
                 pool_price |-> [pool_id |-> pool, price |-> price,
                                 last_update |-> now, slot |-> slot],
                 old_price |-> old_price,
                 price_change_percent |-> price_change(old_price, price)]]
    /\ UNCHANGED <<coordVars, extVars, prices, update_events, snapshot>>

\* update_price, second step: the entry is inserted.  "replaced" records the
\* price that this insert overwrote (None if the key was absent).
UpdateInsert(t) ==
    /\ upd[t].pc = "insert"
    /\ prices' = insert(prices, upd[t].pool_price.pool_id, upd[t].pool_price)
    /\ upd' = [upd EXCEPT ![t] =
                [pc |-> "send",
                 pool_price |-> upd[t].pool_price,
                 old_price |-> upd[t].old_price,
                 price_change_percent |-> upd[t].price_change_percent,
                 replaced |-> get_old_price(prices, upd[t].pool_price.pool_id)]]
    /\ UNCHANGED <<coordVars, extVars, update_events, updates_started, snapshot>>

\* update_price, last step: let _ = self.update_tx.send(event).  The channel
\* retains nothing for receivers that subscribe later, so the model keeps the
\* event being broadcast, until the next one replaces it.
UpdateSend(t) ==
    /\ upd[t].pc = "send"
    /\ update_events' =
          <<[pool_id |-> upd[t].pool_price.pool_id,
             old_price |-> upd[t].old_price,
             new_price |-> upd[t].pool_price.price,
             price_change_percent |-> upd[t].price_change_percent,
             replaced |-> upd[t].replaced]>>
    /\ upd' = [upd EXCEPT ![t] = upd_idle]
    /\ UNCHANGED <<coordVars, extVars, prices, updates_started, snapshot>>

\* update_price as one step, as the single WebSocket task calls it
update_price(map, pool_price) ==
    [prices |-> insert(map, pool_price.pool_id, pool_price),
     event |-> [pool_id |-> pool_price.pool_id,
                old_price |-> get_old_price(map, pool_price.pool_id),
                new_price |-> pool_price.price,
                price_change_percent |->
                    price_change(get_old_price(map, pool_price.pool_id), pool_price.price),
                replaced |-> get_old_price(map, pool_price.pool_id)]]

\* main.rs: logging.price_change_threshold_percent defaults to 1.0 %, in
\* millionths of the last price
price_change_threshold == 10000

\* update_cache_from_pool: price_change_percent of the PriceChangeEvent, a
\* fraction of the last price counted in millionths; last is the entry of
\* last_prices (None if there is none)
ws_price_change(last, price) ==
    IF last = None THEN 10000
    ELSE IF last = 0 \/ price = 0
         THEN IF last # price THEN 1000000 ELSE 0
         ELSE ((IF price >= last THEN price - last ELSE last - price) * 1000000) \div last

\* update_cache_from_pool: price_changed, which decides whether last_prices
\* takes the new price
price_changed(last, price) ==
    IF last = None THEN TRUE
    ELSE IF last = 0 \/ price = 0 THEN last # price
    ELSE ws_price_change(last, price) >= price_change_threshold

\* update_cache_from_pool from the point where reserves and price are known,
\* with the Coordinator's sender registered (set_coordinator_sender):
\* a price of 0 ends the call unless the pool is vault-based or CLMM; the
\* PoolPrice goes to the State Layer, which broadcasts its event; the
\* PriceChangeEvent is built from last_prices and sent to the Coordinator;
\* last_prices takes the price when it changed enough to be logged
update_cache_from_pool(pool, price, slot, keeps_zero_price) ==
    /\ updates_started < MaxChanges
    /\ updates_started' = updates_started + 1
    /\ IF price = 0 /\ ~keeps_zero_price
       THEN UNCHANGED <<prices, update_events, eventVars>>
       ELSE \E last \in {get_old_price([q \in DOMAIN last_prices |-> [price |-> last_prices[q]]],
                                      pool)} :
               \E updated \in {update_price(prices, [pool_id |-> pool, price |-> price,
                                                      last_update |-> now, slot |-> slot])} :
                   /\ prices' = updated.prices
                   /\ update_events' = <<updated.event>>
                   /\ price_change_events' =
                          <<[pool_id |-> pool,
                             price_change_percent |-> ws_price_change(last, price),
                             old_price |-> IF ws_price_change(last, price) > 0
                                           THEN (IF last = None THEN 0 ELSE last)
                                           ELSE None,
                             new_price |-> price,
                             last_price |-> last,
                             replaced |-> get_old_price(prices, pool)]>>
                   /\ last_prices' = IF price_changed(last, price)
                                     THEN insert(last_prices, pool, price)
                                     ELSE last_prices
    /\ UNCHANGED <<coordVars, subVars, scanVars, callVars, upd, snapshot>>

\* a reader calls get_consistent_snapshot; "call" alternates from one call to
\* the next, so that two successive calls are told apart
TakeSnapshot(max_age_ms, max_slot_spread) ==
    /\ snapshot' = [taken |-> TRUE, call |-> 1 - snapshot.call,
                    max_age_ms |-> max_age_ms,
                    max_slot_spread |-> max_slot_spread,
                    result |-> get_consistent_snapshot(prices, now, max_age_ms,
                                                       max_slot_spread)]
    /\ UNCHANGED <<coordVars, extVars, prices, upd, update_events, updates_started>>

\* get_consistent_snapshot, second pass: the filter over self.prices.iter(),
\* with the latest_slot the first pass found
consistent_entries(map, t, latest_slot, max_age_ms, max_slot_spread) ==
    {map[q] : q \in {r \in DOMAIN map :
        /\ ~(as_millis(duration_since(t, map[r].last_update)) > max_age_ms)
        /\ saturating_sub(latest_slot, map[r].slot) <= max_slot_spread}}

\* get_consistent_snapshot next to running writers, first pass: Instant::now()
\* and the maximum over self.prices.iter(); an empty Vec is returned at once
\* when that maximum is 0
SnapshotLatestSlot(max_age_ms, max_slot_spread) ==
    /\ "pc" \notin DOMAIN snapshot
    /\ \E latest_slot \in {get_latest_slot(prices)} :
          snapshot' = IF latest_slot = 0
                      THEN [taken |-> TRUE, call |-> 1 - snapshot.call,
                            max_age_ms |-> max_age_ms,
                            max_slot_spread |-> max_slot_spread,
                            result |-> {}]
                      ELSE [taken |-> FALSE, call |-> snapshot.call, pc |-> "filter",
                            called_at |-> now, latest_slot |-> latest_slot,
                            max_age_ms |-> max_age_ms,
                            max_slot_spread |-> max_slot_spread]
    /\ UNCHANGED <<coordVars, extVars, prices, upd, update_events, updates_started>>

\* second pass: the entries the map holds by now are filtered and collected
SnapshotFilter ==
    /\ "pc" \in DOMAIN snapshot
    /\ snapshot' = [taken |-> TRUE, call |-> 1 - snapshot.call,
                    max_age_ms |-> snapshot.max_age_ms,
                    max_slot_spread |-> snapshot.max_slot_spread,
                    result |-> consistent_entries(prices, snapshot.called_at,
                                                  snapshot.latest_slot,
                                                  snapshot.max_age_ms,
                                                  snapshot.max_slot_spread)]
    /\ UNCHANGED <<coordVars, extVars, prices, upd, update_events, updates_started>>

\* ------------------------------------------------------------------------
\* Passage of time.  The coordinator loop body never blocks (try_send), so a
\* due tick is served before the clock moves on.
\* ------------------------------------------------------------------------
AdvanceTime ==
    /\ now < run_end
    /\ \A c \in coordinators : now < next_tick[c]
    /\ now' = now + 1
    /\ UNCHANGED <<run_end, coordinators, coordinator_tx, calc_rx, closed, event_ch, calc_ch,
                   last_trigger, stats, next_tick, calc_pc, scanning,
                   calc_received, event_tasks, events_sent, stateVars, extVars>>

\* ------------------------------------------------------------------------
\* Subscriber (websocket.rs, vault_reader.rs)
\*
\* Two tasks share the WebSocketClient: the WebSocket task (process_stream:
\* one message or one subscription request at a time) and the proactive
\* fetch task that process_stream spawns.  The runtime has four worker
\* threads (main.rs:153), so the two run in parallel and every critical
\* section (one MutexGuard scope) is a step of its own.
\* ------------------------------------------------------------------------

\* the configured pools, in configuration order
PoolConfigs == <<"pool1", "pool2">>

Vaults == {"vaultA", "vaultB", "vaultC"}

\* DexPool::get_vault_addresses of the decoded pool account; both pools keep
\* their reserves in vaults and share one of them
get_vault_addresses(pool) ==
    IF pool = "pool1" THEN <<"vaultA", "vaultB">> ELSE <<"vaultA", "vaultC">>

\* the pools whose pool_type names phoenix, solfi, clmm or whirlpool
target_pools == <<"pool1">>

\* request ids from this value on belong to vault subscriptions
VaultRequestIdBase == 10000

Tasks == {"ws", "proactive"}

\* 1.0 in the fixed-point unit of prices
PriceUnit == 100000

\* a non-zero price computed by a decoder from the pool account alone
DecoderPrice == 200000

\* DexPool::get_reserves of a pool that keeps its reserves in vaults
decoder_reserves == <<0, 0>>

AccountData(kind, ok, active, price, amount) ==
    [kind |-> kind, ok |-> ok, active |-> active, price |-> price, amount |-> amount]

NoData == AccountData("none", FALSE, FALSE, 0, 0)

\* pool account bytes: undecodable, decoded but inactive, decoded with or
\* without a price of its own
PoolData ==
    {AccountData("pool", FALSE, FALSE, 0, 0), AccountData("pool", TRUE, FALSE, 0, 0),
     AccountData("pool", TRUE, TRUE, 0, 0), AccountData("pool", TRUE, TRUE, DecoderPrice, 0)}

\* 165-byte SPL token accounts
TokenData == {AccountData("token", FALSE, FALSE, 0, a) : a \in 1 .. MaxAmount}

\* an 82-byte mint account
MintData == {AccountData("mint", FALSE, FALSE, 0, 0)}

\* HashMap::insert
hashmap_insert(m, k, v) == [x \in DOMAIN m \cup {k} |-> IF x = k THEN v ELSE m[x]]

\* HashMap::remove
hashmap_remove(m, k) == [x \in DOMAIN m \ {k} |-> m[x]]

\* VaultReader::new
VaultReader_new == [vaults |-> <<>>, pool_to_vaults |-> <<>>]

\* VaultReader::is_vault_account
is_vault_account(vr, address) == address \in DOMAIN vr.vaults

\* VaultReader::register_pool_vaults: both vaults are (re)inserted with amount 0
register_pool_vaults(vr, pool, vault_a, vault_b) ==
    [vaults |-> hashmap_insert(hashmap_insert(vr.vaults, vault_a, 0), vault_b, 0),
     pool_to_vaults |-> hashmap_insert(vr.pool_to_vaults, pool, <<vault_a, vault_b>>)]

\* spl_token Account::unpack of the first 165 bytes: the amount, or None for
\* data that is no token account
unpack(data) == IF data.kind = "token" THEN data.amount ELSE None

\* VaultReader::update_vault: the reader afterwards and the result (an amount,
\* or None for Err).  An 82-byte account gives Ok(0) and changes nothing; a
\* vault that is not registered is inserted.
update_vault(vr, address, data) ==
    IF data.kind = "mint"
    THEN [vr |-> vr, result |-> 0]
    ELSE IF unpack(data) = None
         THEN [vr |-> vr, result |-> None]
         ELSE [vr |-> [vr EXCEPT !.vaults = hashmap_insert(@, address, unpack(data))],
               result |-> unpack(data)]

\* VaultReader::get_pool_reserves; <<>> stands for None
get_pool_reserves(vr, pool) ==
    IF /\ pool \in DOMAIN vr.pool_to_vaults
       /\ vr.pool_to_vaults[pool][1] \in DOMAIN vr.vaults
       /\ vr.pool_to_vaults[pool][2] \in DOMAIN vr.vaults
    THEN <<vr.vaults[vr.pool_to_vaults[pool][1]], vr.vaults[vr.pool_to_vaults[pool][2]]>>
    ELSE <<>>

\* VaultReader::get_pools_for_vault
get_pools_for_vault(vr, vault) ==
    {p \in DOMAIN vr.pool_to_vaults :
        vr.pool_to_vaults[p][1] = vault \/ vr.pool_to_vaults[p][2] = vault}

\* update_cache_from_pool: reserves come from the VaultReader when it knows
\* the pool, else from the pool account
reserves_for(vr, pool) ==
    IF get_pool_reserves(vr, pool) # <<>> THEN get_pool_reserves(vr, pool)
    ELSE decoder_reserves

\* update_cache_from_pool, had it taken the price from the reserves alone
price_for_reserves_only(decoder_price, reserves) ==
    IF reserves[1] > 0 /\ reserves[2] > 0
    THEN (reserves[2] * PriceUnit) \div reserves[1]
    ELSE 0

\* update_cache_from_pool: the decoder's own price comes first; a price of 0
\* falls back to quote / base when both reserves are positive (the decimals
\* of both sides are taken equal)
price_for(decoder_price, reserves) ==
    IF decoder_price # 0 THEN decoder_price
    ELSE IF reserves[1] > 0 /\ reserves[2] > 0
         THEN (reserves[2] * PriceUnit) \div reserves[1]
         ELSE 0

\* update_cache_from_pool: the PoolPrice handed to price_cache.update_price
PoolPrice(pool, decoder_price, reserves, slot, t) ==
    [pool_id |-> pool, price |-> price_for(decoder_price, reserves),
     base_reserve |-> reserves[1], quote_reserve |-> reserves[2],
     last_update |-> t, slot |-> slot]

\* a decode error is recorded and logged; the State Layer is not written
on_decode_error_store(map, pool, slot, t) ==
    hashmap_insert(map, pool, PoolPrice(pool, 0, decoder_reserves, slot, t))

on_decode_error(map, pool, slot, t) == map

\* the mutex guards a task still holds when the critical section it entered
\* at position pc is over, if the guards of the snapshot section outlived it
guards_after_nested(pc) ==
    IF pc \in {"v_collect", "p_recalc"} THEN {"subscription_map", "pool_data_cache"}
    ELSE {}

\* every MutexGuard is confined to a block or dropped before the next one is
\* taken
guards_after(pc) == {}

\* a task may enter a critical section on the mutexes L
can_lock(L) == \A t \in Tasks : held[t] \cap L = {}

\* locals of a task at position pc
task_at(pc) ==
    [pc |-> pc, pool |-> "", vault |-> "", data |-> NoData, slot |-> 0,
     first |-> FALSE, todo |-> <<>>, reserves |-> <<0, 0>>]

sub_log_new ==
    [notified |-> 0, outcome |-> "none", stale_route |-> FALSE,
     registrations |-> [p \in Pools |-> 0],
     seen |-> {}]

\* the guards of task t after the critical section it entered at position pc
release(t, pc) == [held EXCEPT ![t] = guards_after(pc)]

\* task t has returned from its handler: nothing is held
returned(t) == [held EXCEPT ![t] = {}]

\* process_stream up to its select loop: a fresh request channel, the request
\* counter restarts, one accountSubscribe per configured pool is sent, and the
\* proactive fetch task is spawned.  The server numbers the subscriptions of
\* the connection from sid_base + 1.
process_stream(sid_base) ==
    /\ ws.pc = "connect"
    /\ can_lock({"vault_subscription_tx"})
    /\ conn' = conn + 1
    /\ vault_subscription_tx' = TRUE
    /\ vault_rx' = <<>>
    /\ next_subscription_id' = Len(PoolConfigs) + VaultRequestIdBase
    /\ server_pending' = [i \in 1 .. Len(PoolConfigs) |-> [id |-> i, address |-> PoolConfigs[i]]]
    /\ server_subs' = <<>>
    /\ server_sid' = sid_base
    /\ proactive' = task_at("p_query")
    /\ ws' = task_at("select")
    /\ sub_log' = [sub_log EXCEPT !.seen = {}]
    /\ UNCHANGED <<subscription_map, vault_pending_map, vault_subscription_map, vault_reader,
                   pool_data_cache, held, coordVars, scanVars, eventVars, callVars, stateVars>>

\* run: a connection made after an earlier one has ended
Reconnect(sid_base) ==
    /\ conn > 0
    /\ conn < MaxConn
    /\ process_stream(sid_base)

\* the select loop's request branch: the next VaultAccount request gets a
\* request id, is remembered as pending and goes out as an accountSubscribe
SubscribeVault ==
    /\ ws.pc = "select"
    /\ vault_rx # <<>>
    /\ can_lock({"vault_pending_map"})
    /\ next_subscription_id' = next_subscription_id + 1
    /\ vault_pending_map' = hashmap_insert(vault_pending_map, next_subscription_id + 1, Head(vault_rx))
    /\ server_pending' = Append(server_pending,
                                [id |-> next_subscription_id + 1, address |-> Head(vault_rx)])
    /\ vault_rx' = Tail(vault_rx)
    /\ UNCHANGED sub_log
    /\ UNCHANGED <<conn, server_subs, server_sid, subscription_map, vault_subscription_map,
                   vault_reader, pool_data_cache, vault_subscription_tx, ws, proactive, held,
                   coordVars, scanVars, eventVars, callVars, stateVars>>

\* handle_message on a subscription confirmation: the server answers the
\* oldest request with the next subscription id of this connection
ServerConfirm ==
    /\ ws.pc = "select"
    /\ server_pending # <<>>
    /\ can_lock({"subscription_map", "vault_pending_map", "vault_subscription_map"})
    /\ LET req == Head(server_pending)
           sid == server_sid + 1
       IN  /\ server_pending' = Tail(server_pending)
           /\ server_sid' = sid
           /\ server_subs' = hashmap_insert(server_subs, sid, req.address)
           /\ IF req.id > 0 /\ req.id <= Len(PoolConfigs)
              THEN /\ subscription_map' =
                          hashmap_insert(subscription_map, sid,
                                         [pool |-> PoolConfigs[req.id], conn |-> conn])
                   /\ UNCHANGED <<vault_pending_map, vault_subscription_map>>
              ELSE IF req.id >= VaultRequestIdBase /\ req.id \in DOMAIN vault_pending_map
                   THEN /\ vault_pending_map' = hashmap_remove(vault_pending_map, req.id)
                        /\ vault_subscription_map' =
                               hashmap_insert(vault_subscription_map, sid,
                                              [address |-> vault_pending_map[req.id],
                                               conn |-> conn])
                        /\ UNCHANGED subscription_map
                   ELSE UNCHANGED <<subscription_map, vault_pending_map,
                                    vault_subscription_map>>
    /\ UNCHANGED sub_log
    /\ UNCHANGED <<conn, vault_reader, pool_data_cache, vault_subscription_tx, vault_rx,
                   next_subscription_id, ws, proactive, held, coordVars, scanVars, eventVars, callVars, stateVars>>

\* the account data the server can send on subscription sid: the data of the
\* subscribed account, or anything at all on an id this connection does not
\* hold
DataFor(sid) ==
    IF sid \in DOMAIN server_subs
    THEN IF server_subs[sid] \in Vaults THEN TokenData ELSE PoolData
    ELSE PoolData \cup TokenData \cup MintData

\* PoolFactory::create_pool succeeds on well-formed pool account bytes only
create_pool_ok(data) == data.kind = "pool" /\ data.ok

\* handle_account_notification up to the decode: where a notification with
\* subscription id sid and these bytes goes.  The vault registry is asked
\* before the pool registry.
route(sid, data) ==
    IF data.kind = "token"
    THEN IF sid \in DOMAIN vault_subscription_map
         THEN [kind |-> "vault", target |-> vault_subscription_map[sid].address,
               binding_conn |-> vault_subscription_map[sid].conn]
         ELSE [kind |-> "ignored", target |-> "", binding_conn |-> 0]
    ELSE IF /\ data.kind = "mint"
            /\ sid \notin DOMAIN subscription_map
            /\ sid \notin DOMAIN vault_subscription_map
         THEN [kind |-> "ignored", target |-> "", binding_conn |-> 0]
         ELSE IF sid \in DOMAIN vault_subscription_map
              THEN [kind |-> "vault", target |-> vault_subscription_map[sid].address,
                    binding_conn |-> vault_subscription_map[sid].conn]
              ELSE IF sid \in DOMAIN subscription_map
                   THEN [kind |-> "pool", target |-> subscription_map[sid].pool,
                         binding_conn |-> subscription_map[sid].conn]
                   ELSE [kind |-> "unknown", target |-> "", binding_conn |-> 0]

\* the slot the chain has reached when k notifications were sent
chain_slot(k) == IF k < MaxSlot THEN k ELSE MaxSlot

\* the select loop's message branch on an accountNotification:
\* handle_account_notification through routing and decoding
Notify(sid, data) ==
    /\ ws.pc = "select"
    /\ sub_log.notified < MaxNotifications
    /\ data \in DataFor(sid)
    /\ can_lock({"subscription_map", "vault_subscription_map"})
    /\ LET r == route(sid, data)
           slot == chain_slot(sub_log.notified)
           outcome == IF r.kind # "pool" THEN r.kind
                      ELSE IF ~create_pool_ok(data) THEN "decode_failed"
                      ELSE IF ~data.active THEN "inactive"
                      ELSE "pool"
       IN  /\ ws' = IF outcome = "vault"
                    THEN [task_at("v_check") EXCEPT !.vault = r.target, !.data = data, !.slot = slot]
                    ELSE IF outcome = "pool"
                         THEN [task_at("n_check") EXCEPT !.pool = r.target, !.data = data,
                                                         !.slot = slot]
                         ELSE task_at("select")
           /\ prices' = IF outcome = "decode_failed"
                        THEN on_decode_error(prices, r.target, slot, now)
                        ELSE prices
           /\ sub_log' = [sub_log EXCEPT
                  !.notified = @ + 1,
                  !.outcome = outcome,
                  !.stale_route = /\ sid \in DOMAIN server_subs
                                  /\ r.binding_conn \notin {0, conn}]
    /\ UNCHANGED <<conn, server_subs, server_pending, server_sid, subscription_map,
                vault_pending_map,
                   vault_subscription_map, vault_reader, pool_data_cache,
                   vault_subscription_tx, vault_rx, next_subscription_id, proactive, held,
                   coordVars, scanVars, eventVars, callVars, upd, update_events, updates_started, snapshot>>

\* both vaults of the pool are known to the VaultReader
vault_already_registered(vr, pool) ==
    /\ is_vault_account(vr, get_vault_addresses(pool)[1])
    /\ is_vault_account(vr, get_vault_addresses(pool)[2])

\* what a step of the WebSocket task leaves alone besides its own registers
wsFrame ==
    UNCHANGED <<conn, server_subs, server_pending, server_sid, subscription_map,
                vault_pending_map,
                vault_subscription_map, next_subscription_id, proactive, coordVars, scanVars, eventVars, callVars,
                upd, update_events, updates_started, snapshot>>

\* handle_account_notification: is the pool's vault pair registered already?
N_Check ==
    /\ ws.pc = "n_check"
    /\ can_lock({"vault_reader"})
    /\ ws' = [ws EXCEPT !.pc = IF vault_already_registered(vault_reader, ws.pool)
                               THEN "n_reserves" ELSE "n_cache",
                         !.first = ~vault_already_registered(vault_reader, ws.pool)]
    /\ held' = release("ws", "n_check")
    /\ wsFrame
    /\ UNCHANGED <<vault_reader, pool_data_cache, vault_subscription_tx, vault_rx, sub_log, prices>>

\* first handling: the pool account bytes are cached
N_Cache ==
    /\ ws.pc = "n_cache"
    /\ can_lock({"pool_data_cache"})
    /\ pool_data_cache' = hashmap_insert(pool_data_cache, ws.pool, ws.data)
    /\ ws' = [ws EXCEPT !.pc = "n_register"]
    /\ held' = release("ws", "n_cache")
    /\ wsFrame
    /\ UNCHANGED <<vault_reader, vault_subscription_tx, vault_rx, sub_log, prices>>

\* first handling: the vault pair is registered
N_Register ==
    /\ ws.pc = "n_register"
    /\ can_lock({"vault_reader"})
    /\ vault_reader' = register_pool_vaults(vault_reader, ws.pool,
                                            get_vault_addresses(ws.pool)[1],
                                            get_vault_addresses(ws.pool)[2])
    /\ sub_log' = [sub_log EXCEPT !.registrations[ws.pool] = @ + 1]
    /\ ws' = [ws EXCEPT !.pc = "n_send"]
    /\ held' = release("ws", "n_register")
    /\ wsFrame
    /\ UNCHANGED <<pool_data_cache, vault_subscription_tx, vault_rx, prices>>

\* two VaultAccount requests, one per vault, when the request channel exists
send_vault_requests(pool) ==
    IF vault_subscription_tx
    THEN vault_rx \o <<get_vault_addresses(pool)[1], get_vault_addresses(pool)[2]>>
    ELSE vault_rx

\* first handling: the two vault subscription requests are issued
N_Send ==
    /\ ws.pc = "n_send"
    /\ can_lock({"vault_subscription_tx"})
    /\ vault_rx' = send_vault_requests(ws.pool)
    /\ ws' = [ws EXCEPT !.pc = "n_reserves"]
    /\ held' = release("ws", "n_send")
    /\ wsFrame
    /\ UNCHANGED <<vault_reader, pool_data_cache, vault_subscription_tx, sub_log, prices>>

\* update_cache_from_pool: the reserves are read
N_Reserves ==
    /\ ws.pc = "n_reserves"
    /\ can_lock({"vault_reader"})
    /\ ws' = [ws EXCEPT !.pc = "n_update", !.reserves = reserves_for(vault_reader, ws.pool)]
    /\ held' = release("ws", "n_reserves")
    /\ wsFrame
    /\ UNCHANGED <<vault_reader, pool_data_cache, vault_subscription_tx, vault_rx, sub_log, prices>>

\* update_cache_from_pool: the pool is written to the State Layer and the
\* handler returns
N_Update ==
    /\ ws.pc = "n_update"
    /\ prices' = insert(prices, ws.pool, PoolPrice(ws.pool, ws.data.price, ws.reserves, ws.slot, now))
    /\ sub_log' = [sub_log EXCEPT !.seen = @ \cup {ws.pool}]
    /\ ws' = task_at("select")
    /\ held' = returned("ws")
    /\ wsFrame
    /\ UNCHANGED <<vault_reader, pool_data_cache, vault_subscription_tx, vault_rx>>

\* handle_vault_update: a notification for a vault the VaultReader does not
\* know is dropped
V_Check ==
    /\ ws.pc = "v_check"
    /\ can_lock({"vault_reader"})
    /\ IF is_vault_account(vault_reader, ws.vault)
       THEN /\ ws' = [ws EXCEPT !.pc = "v_update"]
            /\ held' = release("ws", "v_check")
       ELSE /\ ws' = task_at("select")
            /\ held' = returned("ws")
    /\ wsFrame
    /\ UNCHANGED <<vault_reader, pool_data_cache, vault_subscription_tx, vault_rx, sub_log, prices>>

\* the pools in configuration order that belong to the set S
pools_in(S) == SelectSeq(PoolConfigs, LAMBDA p : p \in S)

\* handle_vault_update: the balance is stored and the pools of the vault are
\* collected in the same critical section
V_Update ==
    /\ ws.pc = "v_update"
    /\ can_lock({"vault_reader"})
    /\ LET u == update_vault(vault_reader, ws.vault, ws.data)
       IN  /\ vault_reader' = u.vr
           /\ IF u.result = None
              THEN /\ ws' = task_at("select")
                   /\ held' = returned("ws")
              ELSE /\ ws' = [ws EXCEPT !.pc = "v_collect",
                                       !.todo = pools_in(get_pools_for_vault(u.vr, ws.vault))]
                   /\ held' = release("ws", "v_update")
    /\ wsFrame
    /\ UNCHANGED <<pool_data_cache, vault_subscription_tx, vault_rx, sub_log, prices>>

\* a pool has a PoolConfig among the values of subscription_map
has_config(pool) == \E s \in DOMAIN subscription_map : subscription_map[s].pool = pool

\* the (config, cached bytes) pairs of the pools in todo that have both
configs_and_data(todo) ==
    LET kept == SelectSeq(todo, LAMBDA p : has_config(p) /\ p \in DOMAIN pool_data_cache)
    IN  [i \in 1 .. Len(kept) |-> [pool |-> kept[i], data |-> pool_data_cache[kept[i]]]]

\* the order in which trigger_pool_price_recalculation locks the two
\* registries, were it the other way round
recalc_locks_reversed == <<"pool_data_cache", "subscription_map">>

\* the order in which trigger_pool_price_recalculation locks the two
\* registries
recalc_locks == <<"subscription_map", "pool_data_cache">>

\* the order in which handle_vault_update locks the two registries
collect_locks == <<"subscription_map", "pool_data_cache">>

\* handle_vault_update: the first of the two registry locks is taken
V_Lock ==
    /\ ws.pc = "v_collect"
    /\ held["ws"] = {}
    /\ can_lock({collect_locks[1]})
    /\ held' = [held EXCEPT !["ws"] = {collect_locks[1]}]
    /\ wsFrame
    /\ UNCHANGED <<ws, vault_reader, pool_data_cache, vault_subscription_tx, vault_rx, sub_log,
                   prices>>

\* handle_vault_update: the second registry lock is taken inside the first,
\* configs and cached bytes are snapshotted under the two
V_Collect ==
    /\ ws.pc = "v_collect"
    /\ held["ws"] = {collect_locks[1]}
    /\ can_lock({collect_locks[2]})
    /\ LET cd == configs_and_data(ws.todo)
       IN  IF cd = <<>>
           THEN /\ ws' = task_at("select")
                /\ held' = returned("ws")
           ELSE /\ ws' = [ws EXCEPT !.pc = "v_decode", !.todo = cd]
                /\ held' = release("ws", "v_collect")
    /\ wsFrame
    /\ UNCHANGED <<vault_reader, pool_data_cache, vault_subscription_tx, vault_rx, sub_log, prices>>

\* handle_vault_update: the next affected pool is decoded from its cached
\* bytes outside any lock, then update_cache_from_pool reads its reserves
V_Decode ==
    /\ ws.pc = "v_decode"
    /\ IF create_pool_ok(Head(ws.todo).data)
       THEN /\ can_lock({"vault_reader"})
            /\ ws' = [ws EXCEPT !.pc = "v_state", !.pool = Head(ws.todo).pool,
                                !.data = Head(ws.todo).data,
                                !.reserves = reserves_for(vault_reader, Head(ws.todo).pool)]
            /\ held' = release("ws", "v_decode")
       ELSE IF Tail(ws.todo) = <<>>
            THEN /\ ws' = task_at("select")
                 /\ held' = returned("ws")
            ELSE /\ ws' = [ws EXCEPT !.todo = Tail(@)]
                 /\ UNCHANGED held
    /\ wsFrame
    /\ UNCHANGED <<vault_reader, pool_data_cache, vault_subscription_tx, vault_rx, sub_log, prices>>

\* update_cache_from_pool for an affected pool: it is rewritten to the State
\* Layer; the handler returns after the last one
V_State ==
    /\ ws.pc = "v_state"
    /\ prices' = insert(prices, ws.pool, PoolPrice(ws.pool, ws.data.price, ws.reserves, ws.slot, now))
    /\ UNCHANGED sub_log
    /\ IF Tail(ws.todo) = <<>>
       THEN /\ ws' = task_at("select")
            /\ held' = returned("ws")
       ELSE /\ ws' = [ws EXCEPT !.pc = "v_decode", !.todo = Tail(@)]
            /\ UNCHANGED held
    /\ wsFrame
    /\ UNCHANGED <<vault_reader, pool_data_cache, vault_subscription_tx, vault_rx>>

\* the stream ends (Close, an error, or end of stream): the request channel
\* is taken down and the server forgets the connection.  No registry is
\* touched; run then reconnects.  The runs observed are those in which the
\* proactive fetch of the connection is over by then.
Drop ==
    /\ ws.pc = "select"
    /\ proactive.pc = "done"
    /\ can_lock({"vault_subscription_tx"})
    /\ vault_subscription_tx' = FALSE
    /\ vault_rx' = <<>>
    /\ server_subs' = <<>>
    /\ server_pending' = <<>>
    /\ ws' = task_at("connect")
    /\ UNCHANGED sub_log
    /\ UNCHANGED <<conn, server_sid, subscription_map, vault_pending_map,
                   vault_subscription_map, vault_reader, pool_data_cache,
                   next_subscription_id, proactive, held, coordVars, scanVars, eventVars, callVars, stateVars>>

\* what a step of the proactive task leaves alone besides its own registers
proFrame ==
    UNCHANGED <<conn, server_subs, server_pending, server_sid, subscription_map,
                vault_pending_map,
                vault_subscription_map, next_subscription_id, ws, vault_subscription_tx,
                coordVars, scanVars, eventVars, callVars, upd, update_events, updates_started, snapshot>>

\* what an RPC get_account of a pool returns: bytes that decode or bytes
\* that do not (an RPC error ends the task like undecodable bytes do)
RpcPoolData == {AccountData("pool", FALSE, FALSE, 0, 0), AccountData("pool", TRUE, TRUE, 0, 0)}

\* what an RPC get_account of a vault returns: a token account, or NoData
\* for an RPC error
RpcVaultData == {NoData, AccountData("token", FALSE, FALSE, 0, MaxAmount)}

\* proactively_trigger_vault_subscriptions: the target pool's account is
\* fetched over RPC and decoded
P_Query(data) ==
    /\ proactive.pc = "p_query"
    /\ proactive' = IF create_pool_ok(data)
                    THEN [task_at("p_check") EXCEPT !.pool = target_pools[1], !.data = data]
                    ELSE task_at("done")
    /\ proFrame
    /\ UNCHANGED <<vault_reader, pool_data_cache, vault_rx, held, sub_log, prices>>

\* proactively_trigger_vault_subscriptions: is the vault pair registered?
P_Check ==
    /\ proactive.pc = "p_check"
    /\ can_lock({"vault_reader"})
    /\ proactive' = [proactive EXCEPT
           !.pc = IF vault_already_registered(vault_reader, proactive.pool)
                  THEN "p_vault_a" ELSE "p_register"]
    /\ held' = release("proactive", "p_check")
    /\ proFrame
    /\ UNCHANGED <<vault_reader, pool_data_cache, vault_rx, sub_log, prices>>

\* proactively_trigger_vault_subscriptions: the vault pair is registered; the
\* pool account bytes are not cached on this path
P_Register ==
    /\ proactive.pc = "p_register"
    /\ can_lock({"vault_reader"})
    /\ vault_reader' = register_pool_vaults(vault_reader, proactive.pool,
                                            get_vault_addresses(proactive.pool)[1],
                                            get_vault_addresses(proactive.pool)[2])
    /\ sub_log' = [sub_log EXCEPT !.registrations[proactive.pool] = @ + 1]
    /\ proactive' = [proactive EXCEPT !.pc = "p_send"]
    /\ held' = release("proactive", "p_register")
    /\ proFrame
    /\ UNCHANGED <<pool_data_cache, vault_rx, prices>>

\* proactively_trigger_vault_subscriptions: the two requests are issued
P_Send ==
    /\ proactive.pc = "p_send"
    /\ can_lock({"vault_subscription_tx"})
    /\ vault_rx' = send_vault_requests(proactive.pool)
    /\ proactive' = [proactive EXCEPT !.pc = "p_vault_a"]
    /\ held' = release("proactive", "p_send")
    /\ proFrame
    /\ UNCHANGED <<vault_reader, pool_data_cache, sub_log, prices>>

\* fetch_and_update_vault_balances: the RPC answer for one vault (token
\* account bytes, or NoData for an RPC error) is stored
fetched(vr, vault, data) == IF data = NoData THEN vr ELSE update_vault(vr, vault, data).vr

\* what get_slot returns: the slot the chain has reached, or an RPC error,
\* for which the task goes on with slot 0
RpcSlots == {0, chain_slot(sub_log.notified)}

\* ... get_slot is asked first, then the balance of the first vault
P_VaultA(data, slot) ==
    /\ proactive.pc = "p_vault_a"
    /\ can_lock({"vault_reader"})
    /\ vault_reader' = fetched(vault_reader, get_vault_addresses(proactive.pool)[1], data)
    /\ proactive' = [proactive EXCEPT !.pc = "p_vault_b", !.slot = slot]
    /\ held' = release("proactive", "p_vault_a")
    /\ proFrame
    /\ UNCHANGED <<pool_data_cache, vault_rx, sub_log, prices>>

P_VaultB(data) ==
    /\ proactive.pc = "p_vault_b"
    /\ can_lock({"vault_reader"})
    /\ vault_reader' = fetched(vault_reader, get_vault_addresses(proactive.pool)[2], data)
    /\ proactive' = [proactive EXCEPT !.pc = "p_recalc"]
    /\ held' = release("proactive", "p_vault_b")
    /\ proFrame
    /\ UNCHANGED <<pool_data_cache, vault_rx, sub_log, prices>>

\* trigger_pool_price_recalculation: the first of the two registry locks is
\* taken
P_Lock ==
    /\ proactive.pc = "p_recalc"
    /\ held["proactive"] = {}
    /\ can_lock({recalc_locks[1]})
    /\ held' = [held EXCEPT !["proactive"] = {recalc_locks[1]}]
    /\ proFrame
    /\ UNCHANGED <<proactive, vault_reader, pool_data_cache, vault_rx, sub_log, prices>>

\* trigger_pool_price_recalculation: the second registry lock is taken inside
\* the first, config and cached bytes are looked up under the two; without
\* both nothing is recalculated
P_Recalc ==
    /\ proactive.pc = "p_recalc"
    /\ held["proactive"] = {recalc_locks[1]}
    /\ can_lock({recalc_locks[2]})
    /\ LET cd == configs_and_data(<<proactive.pool>>)
       IN  IF cd = <<>>
           THEN /\ proactive' = task_at("done")
                /\ held' = returned("proactive")
           ELSE /\ proactive' = [proactive EXCEPT !.pc = "p_decode", !.todo = cd]
                /\ held' = release("proactive", "p_recalc")
    /\ proFrame
    /\ UNCHANGED <<vault_reader, pool_data_cache, vault_rx, sub_log, prices>>

\* trigger_pool_price_recalculation: the pool is decoded from its cached
\* bytes outside any lock, then update_cache_from_pool reads its reserves
P_Decode ==
    /\ proactive.pc = "p_decode"
    /\ IF create_pool_ok(Head(proactive.todo).data)
       THEN /\ can_lock({"vault_reader"})
            /\ proactive' = [proactive EXCEPT
                   !.pc = "p_update", !.data = Head(proactive.todo).data,
                   !.reserves = reserves_for(vault_reader, proactive.pool)]
            /\ held' = release("proactive", "p_decode")
       ELSE /\ proactive' = task_at("done")
            /\ held' = returned("proactive")
    /\ proFrame
    /\ UNCHANGED <<vault_reader, pool_data_cache, vault_rx, sub_log, prices>>

\* update_cache_from_pool on the proactive path: the State Layer is written
P_Update ==
    /\ proactive.pc = "p_update"
    /\ prices' = insert(prices, proactive.pool,
                        PoolPrice(proactive.pool, proactive.data.price, proactive.reserves,
                                  proactive.slot, now))
    /\ UNCHANGED sub_log
    /\ proactive' = task_at("done")
    /\ held' = returned("proactive")
    /\ proFrame
    /\ UNCHANGED <<vault_reader, pool_data_cache, vault_rx>>


\* ------------------------------------------------------------------------
\* Scanners (router_bfs.rs, router_bellman_ford.rs) and Calculator
\* (calculator.rs)
\*
\* Amounts and prices are kept as logarithms counted in whole LogUnits: a
\* pool's price is e^(price * LogUnit) quote per base, one LogUnit above or
\* below 1; its reserves agree with its price and are deep against the
\* probe amount, and every pool is a Raydium AMM V4 pool (fee 0.25 % in both
\* fee tables).  One LogUnit is larger than the fees and the gas of a
\* six-hop path plus min_roi_percent, and larger than convergence_threshold,
\* so a sum of edge weights decides every comparison the scanners make
\* exactly as the f64 values do.
\*
\* An operator that walks a list binds its arguments as values first
\* (CHOOSE r \in {... : x \in {x0}} : TRUE), so that each is worked out once.
\* ------------------------------------------------------------------------
ScanTokens == {"A", "B", "C"}

LogPrices == {-1, 1}

\* CalculatorConfig::default
bf_max_hops == 6

\* f64::INFINITY, f64::NEG_INFINITY and f64::NAN.  A price of 0 is the
\* LogPrice NEG_INFINITY.
INFINITY == 1000

NEG_INFINITY == 0 - INFINITY

NAN == 2 * INFINITY

\* f64 addition: an infinity absorbs what is finite, the two infinities add
\* up to NaN, NaN stays NaN
f64_add(a, b) ==
    IF a = NAN \/ b = NAN THEN NAN
    ELSE IF {a, b} = {INFINITY, NEG_INFINITY} THEN NAN
    ELSE IF a \in {INFINITY, NEG_INFINITY} THEN a
    ELSE IF b \in {INFINITY, NEG_INFINITY} THEN b
    ELSE a + b

\* f64 <: false when either side is NaN
f64_lt(a, b) == a # NAN /\ b # NAN /\ a < b

\* the orders in which a HashSet of tokens can be iterated
orders_of(S) ==
    {o \in [1 .. Cardinality(S) -> S] : \A i, j \in DOMAIN o : i # j => o[i] # o[j]}

\* the sum of the weights of a list of edges
RECURSIVE sum_weights(_)
sum_weights(es0) ==
    CHOOSE r \in {IF es = <<>> THEN 0 ELSE f64_add(es[1].weight, sum_weights(Tail(es))) :
                     es \in {es0}} : TRUE

\* extract_unique_tokens / the token_set of build_graph
unique_tokens(pools) ==
    UNION {{pools[i].base, pools[i].quote} : i \in DOMAIN pools}

\* an Edge of the graph (a PoolEdge of the BFS)
Edge(from, to, weight, pool) ==
    [from |-> from, to |-> to, weight |-> weight, pool_id |-> pool.pool_id]

\* update_cache_from_pool replaces a price of 0 by quote_reserve /
\* base_reserve when both reserves are positive, so a pool that is stored
\* with price 0 has a reserve of 0, and so has an edge of infinite weight
reserve_is_zero(edge) == edge.weight \in {INFINITY, NEG_INFINITY}

\* amm_calculator::calculate_amm_output_f64 along edge, as the gain after
\* the swap of a path that had gain before it: the output is 0 when
\* amount_in or a reserve is 0, else the swap gains what the edge weighs,
\* negated
calculate_amm_output_ignoring_reserves(gain, edge) == f64_add(gain, 0 - edge.weight)

calculate_amm_output(gain, edge) ==
    IF gain = NEG_INFINITY \/ reserve_is_zero(edge) THEN NEG_INFINITY
    ELSE gain - edge.weight

\* the amount after the swaps along edges from edge i on
RECURSIVE swap_along(_, _, _)
swap_along(gain0, edges, i) ==
    CHOOSE r \in
        {IF i > Len(edges) THEN gain
         ELSE swap_along(calculate_amm_output(gain, edges[i]), edges, i + 1) :
            gain \in {gain0}} : TRUE

\* build_graph: per pool, in order, the edge quote -> base with weight
\* -ln(1 / price) and then the edge base -> quote with weight -ln(price)
build_graph(pools) ==
    [k \in 1 .. 2 * Len(pools) |->
        IF k % 2 = 1
        THEN Edge(pools[(k + 1) \div 2].quote, pools[(k + 1) \div 2].base,
                  pools[(k + 1) \div 2].price, pools[(k + 1) \div 2])
        ELSE Edge(pools[k \div 2].base, pools[k \div 2].quote,
                  0 - pools[k \div 2].price, pools[k \div 2])]

\* d_from + edge.weight < d_to - convergence_threshold
relaxable(dist, edge) ==
    f64_lt(f64_add(dist[edge.from], edge.weight), dist[edge.to])

\* one relaxation round from edge i on: the edges in order, each seeing the
\* updates of the edges before it
RECURSIVE relax_round(_, _, _)
relax_round(st0, edges, i) ==
    CHOOSE r \in
        {IF i > Len(edges) THEN st
         ELSE IF relaxable(st.dist, edges[i])
         THEN relax_round(
                  [dist |-> [st.dist EXCEPT ![edges[i].to] =
                                 f64_add(st.dist[edges[i].from], edges[i].weight)],
                   parent |-> [st.parent EXCEPT ![edges[i].to] = <<edges[i]>>],
                   updated |-> TRUE],
                  edges, i + 1)
         ELSE relax_round(st, edges, i + 1) : st \in {st0}} : TRUE

\* the V-1 rounds, ended early by a round without an update
RECURSIVE relax_rounds(_, _, _)
relax_rounds(st0, edges, rounds) ==
    CHOOSE r \in
        {IF rounds = 0 THEN st
         ELSE CHOOSE q \in
                  {IF after.updated THEN relax_rounds(after, edges, rounds - 1) ELSE after :
                      after \in {relax_round([st EXCEPT !.updated = FALSE], edges, 1)}} : TRUE :
            st \in {st0}} : TRUE

\* the iteration limit of extract_cycle
MAX_CYCLE_ITERATIONS == 20

\* the walk back along parent without its iteration limit
iteration_limit_never_reached(iteration_count) == FALSE

\* iteration_count >= MAX_CYCLE_ITERATIONS, tested at the top of the loop
iteration_limit_reached(iteration_count) == iteration_count >= MAX_CYCLE_ITERATIONS

\* extract_cycle, the walk back along parent: stops at a token seen before,
\* at a token without a parent or at one the map has no entry for; gives up
\* after MAX_CYCLE_ITERATIONS.  iterations counts the loop bodies completed.
RECURSIVE walk_parents(_, _, _, _, _, _)
walk_parents(parent, current0, visited0, cycle_tokens0, cycle_edges0, iteration_count) ==
    CHOOSE r \in
        {IF iteration_limit_reached(iteration_count)
         THEN [ok |-> FALSE, iterations |-> iteration_count]
         ELSE IF \/ current \in visited
                 \/ current \notin DOMAIN parent
                 \/ parent[current] = <<>>
         THEN [ok |-> TRUE, tokens |-> cycle_tokens, edges |-> cycle_edges,
               iterations |-> iteration_count]
         ELSE walk_parents(parent, parent[current][1].from, visited \cup {current},
                           Append(cycle_tokens, current),
                           Append(cycle_edges, parent[current][1]),
                           iteration_count + 1) :
            current \in {current0}, visited \in {visited0},
            cycle_tokens \in {cycle_tokens0}, cycle_edges \in {cycle_edges0}} : TRUE

\* extract_cycle, after the walk: the trigger edge is pushed, both lists are
\* reversed and cut from the first token that occurs more than once
\* (start_idx) to its next occurrence (end_idx, 0 if there is none); found
\* is FALSE for None
cut_cycle(all_tokens, all_edges) ==
    LET repeated == {i \in DOMAIN all_tokens :
                        \E j \in DOMAIN all_tokens : j # i /\ all_tokens[j] = all_tokens[i]}
        first_of(S) == IF S = {} THEN 0 ELSE CHOOSE i \in S : \A j \in S : i <= j
    IN  CHOOSE r \in
            {IF sum_weights(cycle.edges) # NAN /\ sum_weights(cycle.edges) >= 0
             THEN [found |-> FALSE]
             ELSE IF cycle.tokens = <<>> \/ cycle.edges = <<>> THEN [found |-> FALSE]
             ELSE IF cycle.tokens[1] # cycle.tokens[Len(cycle.tokens)] THEN [found |-> FALSE]
             ELSE [found |-> TRUE, tokens |-> cycle.tokens, edges |-> cycle.edges,
                   total_weight |-> sum_weights(cycle.edges)] :
                cycle \in
                    {IF end_idx = 0 THEN [tokens |-> all_tokens, edges |-> all_edges]
                     ELSE [tokens |-> SubSeq(all_tokens, start_idx, end_idx),
                           edges |-> SubSeq(all_edges, start_idx, end_idx - 1)] :
                        <<start_idx, end_idx>> \in
                            {<<s, IF s = 0 THEN 0
                                  ELSE first_of({j \in DOMAIN all_tokens :
                                                   j > s /\ all_tokens[j] = all_tokens[s]})>> :
                                s \in {first_of(repeated)}}}} : TRUE

extract_cycle(parent, start_token, trigger_edge) ==
    CHOOSE r \in
        {IF ~walked.ok THEN [found |-> FALSE]
         ELSE cut_cycle([i \in 1 .. Len(walked.tokens) + 1 |->
                            IF i = 1 THEN trigger_edge.to
                            ELSE walked.tokens[Len(walked.tokens) + 2 - i]],
                        [i \in 1 .. Len(walked.edges) + 1 |->
                            IF i = 1 THEN trigger_edge
                            ELSE walked.edges[Len(walked.edges) + 2 - i]]) :
            walked \in {walk_parents(parent, start_token, {}, <<>>, <<>>, 0)}} : TRUE

\* the V-th round from edge i on: every edge that still relaxes names a
\* cycle; the hop limit is checked on cycle.tokens.len()
RECURSIVE detect_round(_, _, _, _, _, _)
detect_round(st, edges, i, max_hops, detected_tokens0, negative_cycles0) ==
    CHOOSE r \in
        {IF i > Len(edges) THEN negative_cycles
         ELSE IF ~relaxable(st.dist, edges[i]) \/ edges[i].to \in detected_tokens
         THEN detect_round(st, edges, i + 1, max_hops, detected_tokens, negative_cycles)
         ELSE CHOOSE q \in
                  {IF cycle.found /\ Len(cycle.tokens) >= 2 /\ Len(cycle.tokens) <= max_hops
                   THEN detect_round(st, edges, i + 1, max_hops,
                                     detected_tokens \cup {edges[i].to},
                                     Append(negative_cycles, cycle))
                   ELSE detect_round(st, edges, i + 1, max_hops, detected_tokens,
                                     negative_cycles) :
                      cycle \in {extract_cycle(st.parent, edges[i].to, edges[i])}} : TRUE :
            detected_tokens \in {detected_tokens0},
            negative_cycles \in {negative_cycles0}} : TRUE

\* detect_cycles_from_token: <<>> for None
detect_cycles_from_token(start_token, edges, tokens, max_hops) ==
    CHOOSE r \in
        {detect_round(st, edges, 1, max_hops, {}, <<>>) :
            st \in {relax_rounds([dist |-> [t \in tokens |->
                                               IF t = start_token THEN 0 ELSE INFINITY],
                                  parent |-> [t \in tokens |-> <<>>],
                                  updated |-> FALSE],
                                 edges, Cardinality(tokens) - 1)}} : TRUE

\* the sorted, joined signature of deduplicate_cycles keeps the multiset of
\* the cycle's tokens
cycle_signature(ts) ==
    [t \in {ts[i] : i \in DOMAIN ts} |-> Cardinality({i \in DOMAIN ts : ts[i] = t})]

\* deduplicate_cycles: the first cycle of every signature
deduplicate_cycles(cycles) ==
    LET keep == {i \in DOMAIN cycles :
                    \A j \in 1 .. i - 1 :
                        cycle_signature(cycles[j].tokens) # cycle_signature(cycles[i].tokens)}
    IN  [k \in 1 .. Cardinality(keep) |->
            cycles[CHOOSE i \in keep : Cardinality({j \in keep : j <= i}) = k]]

\* cycle_to_path: an ArbitragePath with one RouteStep per edge and the ends
\* taken from cycle.tokens; gain is ln(output_amount / input_amount) before
\* fees, the amounts worked out swap by swap
cycle_to_path(cycle) ==
    [steps |-> [i \in DOMAIN cycle.edges |->
                   [pool_id |-> cycle.edges[i].pool_id,
                    input_token |-> cycle.edges[i].from,
                    output_token |-> cycle.edges[i].to]],
     start_token |-> cycle.tokens[1],
     end_token |-> cycle.tokens[Len(cycle.tokens)],
     gain |-> swap_along(0, cycle.edges, 1)]

\* roi_percent >= min_roi_percent
roi_passes(path) == path.gain >= 1

\* ArbitragePath::is_valid
is_valid(path) == path.start_token = path.end_token

\* Vec::sort_by, roi_percent descending: more gain first, then fewer hops;
\* stable, so a path stays behind the equal paths that came before it
sort_by_roi(paths) ==
    LET higher(a, b) == a.gain > b.gain \/ (a.gain = b.gain /\ Len(a.steps) < Len(b.steps))
        pos(i) == 1 + Cardinality({j \in DOMAIN paths :
                         \/ higher(paths[j], paths[i])
                         \/ j < i /\ ~higher(paths[i], paths[j])})
    IN  [k \in DOMAIN paths |-> paths[CHOOSE i \in DOMAIN paths : pos(i) = k]]

\* Vec::sort_by, ArbitragePath::score descending: the score grows with the
\* net profit and the ROI and falls with the hops
sort_by_score(paths) ==
    LET higher(a, b) == a.gain > b.gain \/ (a.gain = b.gain /\ Len(a.steps) < Len(b.steps))
        pos(i) == 1 + Cardinality({j \in DOMAIN paths :
                         \/ higher(paths[j], paths[i])
                         \/ j < i /\ ~higher(paths[i], paths[j])})
    IN  [k \in DOMAIN paths |-> paths[CHOOSE i \in DOMAIN paths : pos(i) = k]]

\* the lists found for the tokens, joined in the order the tokens are
\* iterated in
RECURSIVE in_order(_, _, _)
in_order(found, token_order, i) ==
    IF i > Len(token_order) THEN <<>>
    ELSE found[token_order[i]] \o in_order(found, token_order, i + 1)

\* find_all_cycles: found[t] is what detect_cycles_from_token returned for
\* start token t, token_order the order of the collected HashSet
find_all_cycles(pools, found, token_order) ==
    LET kept(p) == is_valid(p) /\ roi_passes(p)
    IN  IF unique_tokens(pools) = {} \/ build_graph(pools) = <<>> THEN <<>>
        ELSE CHOOSE r \in
                 {sort_by_score(SelectSeq([i \in DOMAIN unique_cycles |->
                                              cycle_to_path(unique_cycles[i])], kept)) :
                     unique_cycles \in
                         {deduplicate_cycles(in_order(found, token_order, 1))}} : TRUE

\* get_next_edges: per pool, in order, the edge out of current_token; an
\* edge of the BFS gains what the same edge of the graph weighs, negated
get_next_edges(current_token, pools) ==
    LET leaves(edge) == edge.from = current_token
    IN  SelectSeq(build_graph(pools), leaves)

\* convert_to_arbitrage_path: an ArbitragePath with one RouteStep per edge
\* and the ends taken from the PathNode's tokens
convert_to_arbitrage_path(node) ==
    [steps |-> [i \in DOMAIN node.edges |->
                   [pool_id |-> node.edges[i].pool_id,
                    input_token |-> node.edges[i].from,
                    output_token |-> node.edges[i].to]],
     start_token |-> node.tokens[1],
     end_token |-> node.tokens[Len(node.tokens)],
     gain |-> node.gain]

\* the for loop of bfs_from_token from edge i on: the PathNodes (tokens,
\* amount as gain so far, edges) to push for the edges out of node, and the
\* path signatures (token sequence and pool_id sequence) seen
RECURSIVE expand(_, _, _, _, _, _)
expand(node, start_token, edges, i, visited_paths0, pushed0) ==
    CHOOSE r \in
        {IF i > Len(edges) THEN [visited_paths |-> visited_paths, pushed |-> pushed]
         ELSE IF \/ Len(node.tokens) = 2 /\ edges[i].to = start_token
                 \/ /\ \E k \in DOMAIN node.tokens : node.tokens[k] = edges[i].to
                    /\ edges[i].to # start_token
                 \/ <<Append(node.tokens, edges[i].to),
                       [k \in 1 .. Len(node.edges) + 1 |->
                           IF k <= Len(node.edges) THEN node.edges[k].pool_id
                           ELSE edges[i].pool_id]>> \in visited_paths
         THEN expand(node, start_token, edges, i + 1, visited_paths, pushed)
         ELSE expand(node, start_token, edges, i + 1,
                     visited_paths \cup
                         {<<Append(node.tokens, edges[i].to),
                            [k \in 1 .. Len(node.edges) + 1 |->
                                IF k <= Len(node.edges) THEN node.edges[k].pool_id
                                ELSE edges[i].pool_id]>>},
                     Append(pushed, [tokens |-> Append(node.tokens, edges[i].to),
                                     gain |-> calculate_amm_output(node.gain, edges[i]),
                                     edges |-> Append(node.edges, edges[i])])) :
            visited_paths \in {visited_paths0}, pushed \in {pushed0}} : TRUE

\* bfs_from_token, the while loop on the queue.  The interim ROI is under
\* early_stop_threshold (-0.5 %) when the path has lost a LogUnit, or has
\* no gain and has paid the 0.25 % fee three times.
RECURSIVE bfs_from_token(_, _, _, _, _, _)
bfs_from_token(queue0, visited_paths0, results0, start_token, pools, max_depth) ==
    CHOOSE r \in
        {IF queue = <<>> THEN results
         ELSE CHOOSE q \in
             {IF depth >= max_depth
              THEN bfs_from_token(Tail(queue), visited_paths, results, start_token, pools,
                                  max_depth)
              ELSE IF depth > 0 /\ (node.gain < 0 \/ (node.gain = 0 /\ depth >= 3))
              THEN bfs_from_token(Tail(queue), visited_paths, results, start_token, pools,
                                  max_depth)
              ELSE IF depth >= 2 /\ node.tokens[depth + 1] = start_token
              THEN bfs_from_token(Tail(queue), visited_paths,
                                  IF roi_passes(convert_to_arbitrage_path(node))
                                  THEN Append(results, convert_to_arbitrage_path(node))
                                  ELSE results,
                                  start_token, pools, max_depth)
              ELSE CHOOSE p \in
                       {bfs_from_token(Tail(queue) \o grown.pushed, grown.visited_paths,
                                       results, start_token, pools, max_depth) :
                           grown \in {expand(node, start_token,
                                             get_next_edges(node.tokens[depth + 1], pools),
                                             1, visited_paths, <<>>)}} : TRUE :
                 node \in {queue[1]}, depth \in {Len(queue[1].tokens) - 1}} : TRUE :
            queue \in {queue0}, visited_paths \in {visited_paths0},
            results \in {results0}} : TRUE

\* BfsScanner::deduplicate_paths: the first path of every signature (input
\* tokens and pool_ids of the steps)
BfsScanner_deduplicate_paths(paths) ==
    LET signature(p) == <<[i \in DOMAIN p.steps |-> p.steps[i].input_token],
                          [i \in DOMAIN p.steps |-> p.steps[i].pool_id]>>
        keep == {i \in DOMAIN paths :
                    \A j \in 1 .. i - 1 : signature(paths[j]) # signature(paths[i])}
    IN  [k \in 1 .. Cardinality(keep) |->
            paths[CHOOSE i \in keep : Cardinality({j \in keep : j <= i}) = k]]

\* BfsScanner::find_all_opportunities: found[t] is what bfs_from_token
\* returned for start token t, token_order the order of the HashSet
find_all_opportunities(found, token_order) ==
    sort_by_roi(BfsScanner_deduplicate_paths(in_order(found, token_order, 1)))

\* every path kept, whatever its key
deduplicate_paths_keep_all(paths) == paths

\* Calculator::deduplicate_paths: the first path of every key, the key
\* being the pool_ids of the steps in order
deduplicate_paths(paths) ==
    LET key(p) == [i \in DOMAIN p.steps |-> p.steps[i].pool_id]
        keep == {i \in DOMAIN paths : \A j \in 1 .. i - 1 : key(paths[j]) # key(paths[i])}
    IN  [k \in 1 .. Cardinality(keep) |->
            paths[CHOOSE i \in keep : Cardinality({j \in keep : j <= i}) = k]]

\* the snapshots a Calculator::calculate call can get: none, or up to
\* MaxPools pools with distinct pool_ids.  The scanners treat every token
\* alike and every iteration order of the token sets is tried, so the first
\* pool is taken to be an A/B pool.
SnapshotsOf(first_prices, other_prices) ==
    UNION {{[i \in 1 .. n |->
                IF i = 1
                THEN [pool_id |-> 1, base |-> "A", quote |-> "B", price |-> first]
                ELSE [pool_id |-> i, base |-> f[i - 1][1], quote |-> f[i - 1][2],
                      price |-> f[i - 1][3]]] :
              first \in first_prices,
              f \in [1 .. n - 1 ->
                        {x \in ScanTokens \X ScanTokens \X other_prices : x[1] # x[2]}]} :
           n \in 1 .. MaxPools}

ScanSnapshots == {<<>>} \cup SnapshotsOf(LogPrices, LogPrices)

\* the snapshots whose first pool has the price 0
ZeroPriceSnapshots == SnapshotsOf({NEG_INFINITY}, LogPrices \cup {NEG_INFINITY})

\* Calculator::calculate, 1: the snapshot is get_consistent_snapshot(2000,
\* 10); an empty one ends the call.  fresh is what get_fresh_prices(5000)
\* holds at that moment, which the call does not read.
calculate_snapshot(pools, fresh) ==
    /\ scan.pc = "snapshot"
    /\ scan_pools' = pools
    /\ scan' = [scan EXCEPT !.pc = IF pools = <<>> THEN "done" ELSE "bfs",
                            !.fresh = fresh]
    /\ UNCHANGED <<walk, coordVars, stateVars, subVars, eventVars, callVars>>

\* Calculator::calculate, 2.1: run_bfs with the scanner's max_depth
run_bfs(bfs_max_hops) ==
    /\ scan.pc = "bfs"
    /\ \E tokens \in {unique_tokens(scan_pools)} :
          \E found \in {[t \in tokens |->
                            bfs_from_token(<<[tokens |-> <<t>>, gain |-> 0, edges |-> <<>>]>>,
                                           {}, <<>>, t, scan_pools, bfs_max_hops)]} :
              \E token_order \in orders_of(tokens) :
                  scan' = [scan EXCEPT !.pc = "bf", !.bfs_max_hops = bfs_max_hops,
                                       !.bfs_paths = find_all_opportunities(found, token_order)]
    /\ UNCHANGED <<scan_pools, walk, coordVars, stateVars, subVars, eventVars, callVars>>

\* Calculator::calculate, 2.2: run_bellman_ford with the scanner's max_hops
run_bellman_ford(max_hops) ==
    /\ scan.pc = "bf"
    /\ \E tokens \in {unique_tokens(scan_pools)}, edges \in {build_graph(scan_pools)} :
          \E found \in {[t \in tokens |->
                            detect_cycles_from_token(t, edges, tokens, max_hops)]} :
              \E token_order \in orders_of(tokens) :
                  scan' = [scan EXCEPT !.pc = "dedup", !.bf_max_hops = max_hops,
                                       !.bf_paths = find_all_cycles(scan_pools, found,
                                                                    token_order)]
    /\ UNCHANGED <<scan_pools, walk, coordVars, stateVars, subVars, eventVars, callVars>>

\* Calculator::calculate, 2.1 and 2.2: a panic inside the scanner that is
\* running (the unwrap of a failed partial_cmp in its sort, a panic of one of
\* its workers) unwinds through run_bfs or run_bellman_ford and through
\* calculate, which has no handler: the call ends without a return value
scanner_panics(scanner) ==
    /\ scan.pc = scanner
    /\ scan' = [scan EXCEPT !.pc = "panicked"]
    /\ UNCHANGED <<scan_pools, walk, coordVars, stateVars, subVars, eventVars, callVars>>

\* Calculator::calculate, 3: all_paths deduplicated and returned
calculate_return ==
    /\ scan.pc = "dedup"
    /\ scan' = [scan EXCEPT !.pc = "done",
                            !.returned = IF scan.bfs_paths \o scan.bf_paths = <<>> THEN <<>>
                                         ELSE deduplicate_paths(scan.bfs_paths \o scan.bf_paths)]
    /\ UNCHANGED <<scan_pools, walk, coordVars, stateVars, subVars, eventVars, callVars>>

\* the predecessor maps an extract_cycle call can be handed, as far as a walk
\* from token 0 can tell them apart: token i < len has the parent i + 1, and
\* token len has no parent ("none"), no entry ("missing"), or a parent that
\* is a token of the chain again (0 .. len; len itself is a self-loop)
PredecessorMaps ==
    LET edge(from, to) == Edge(from, to, -1, [pool_id |-> to])
        chain(len) == [i \in 0 .. len - 1 |-> <<edge(i + 1, i)>>]
    IN  UNION {{chain(len) @@ (len :> <<>>), chain(len)} \cup
               {chain(len) @@ (len :> <<edge(back, len)>>) : back \in 0 .. len} :
                  len \in 0 .. MaxChain}

\* one BellmanFordScanner::extract_cycle call: walked is the walk back along
\* parent, cycle what the call returned
extract_cycle_call(parent, trigger_edge) ==
    /\ walk.pc = "call"
    /\ walk' = [pc |-> "returned", parent |-> parent,
                walked |-> walk_parents(parent, trigger_edge.to, {}, <<>>, <<>>, 0),
                cycle |-> extract_cycle(parent, trigger_edge.to, trigger_edge)]
    /\ UNCHANGED <<scan_pools, scan, coordVars, stateVars, subVars, eventVars, callVars>>

\* ------------------------------------------------------------------------
\* Initial states
\* ------------------------------------------------------------------------
ChannelPairs == {1, 2}

InitCommon ==
    /\ event_ch = [c \in ChannelPairs |-> <<>>]
    /\ calc_ch = [c \in ChannelPairs |-> <<>>]
    /\ last_trigger = [c \in ChannelPairs |-> safe_initial_time(StartTime)]
    /\ stats = [c \in ChannelPairs |-> CoordinatorStats_default]
    /\ next_tick = [c \in ChannelPairs |-> interval_first_tick(StartTime)]
    /\ calc_pc = "recv"
    /\ scanning = <<>>
    /\ calc_received = [Clock |-> 0, Event |-> 0]
    /\ event_tasks = [c \in ChannelPairs |-> <<>>]
    /\ events_sent = 0
    /\ upd = [t \in Threads |-> upd_idle]
    /\ update_events = <<>>
    /\ updates_started = 0
    /\ snapshot = [taken |-> FALSE, call |-> 0]
    /\ scan_pools = <<>>
    /\ scan = [pc |-> "snapshot", bfs_max_hops |-> 0, bf_max_hops |-> 0, fresh |-> <<>>,
               bfs_paths |-> <<>>,
               bf_paths |-> <<>>, returned |-> <<>>]
    /\ walk = [pc |-> "call"]
    /\ closed = [event_tx |-> {}, calc_tx |-> {}, calc_rx |-> {}]
    /\ amm = [pc |-> "call"]
    /\ last_prices = <<>>
    /\ price_change_events = <<>>

\* WebSocketClient::new: empty registries, no connection yet
InitSubscriber ==
    /\ conn = 0
    /\ server_subs = <<>>
    /\ server_pending = <<>>
    /\ server_sid = 0
    /\ subscription_map = <<>>
    /\ vault_pending_map = <<>>
    /\ vault_subscription_map = <<>>
    /\ vault_reader = VaultReader_new
    /\ pool_data_cache = <<>>
    /\ vault_subscription_tx = FALSE
    /\ vault_rx = <<>>
    /\ next_subscription_id = 0
    /\ ws = task_at("connect")
    /\ proactive = task_at("none")
    /\ held = [t \in Tasks |-> {}]
    /\ sub_log = sub_log_new

\* main.rs: two channel pairs and two Coordinators are created; the WebSocket
\* client gets the event_tx of the first pair (line 493), the Calculator task
\* owns the calc_rx of the second pair (line 568)
Init ==
    /\ InitCommon
    /\ InitSubscriber
    /\ now = StartTime
    /\ run_end = MaxTime
    /\ prices = <<>>
    /\ coordinators = {1, 2}
    /\ coordinator_tx = 1
    /\ calc_rx = 2

\* coordinator.rs tests and suanfa/main.rs: one Coordinator between the event
\* source and the task consumer
InitUnit ==
    /\ InitCommon
    /\ InitSubscriber
    /\ now = StartTime
    /\ run_end = MaxTime
    /\ prices = <<>>
    /\ coordinators = {1}
    /\ coordinator_tx = 1
    /\ calc_rx = 1

Next ==
    \/ \E c \in ChannelPairs : Tick(c)
    \/ \E c \in ChannelPairs : HandleEvent(c)
    \/ \E pool \in Pools, pct \in Ratios : SendEvent(pool, pct)
    \/ CalcRecv
    \/ ScanDone
    \/ AdvanceTime

Spec == Init /\ [][Next]_vars

SpecUnit == InitUnit /\ [][Next]_vars

\* one Coordinator and the Calculator while the process shuts down: the
\* loops take their steps whenever they can, the drops may come at any time
InitShutdown ==
    /\ InitCommon
    /\ InitSubscriber
    /\ now = StartTime
    /\ run_end = StartTime + from_millis(tick_interval_ms)
    /\ prices = <<>>
    /\ coordinators = {1}
    /\ coordinator_tx = 1
    /\ calc_rx = 1

NextShutdown ==
    \/ \E c \in ChannelPairs : Tick(c)
    \/ \E c \in ChannelPairs : HandleEvent(c)
    \/ \E pool \in Pools, pct \in Ratios : SendEvent(pool, pct)
    \/ CalcRecv
    \/ ScanDone
    \/ AdvanceTime
    \/ CalcRecvNone
    \/ DropEventSender
    \/ DropCalcReceiver
    \/ \E c \in ChannelPairs : DropCoordinator(c)

SpecShutdown ==
    /\ InitShutdown
    /\ [][NextShutdown]_vars
    /\ WF_vars(\E c \in ChannelPairs : Tick(c))
    /\ WF_vars(\E c \in ChannelPairs : HandleEvent(c))
    /\ WF_vars(CalcRecv)
    /\ WF_vars(ScanDone)
    /\ WF_vars(CalcRecvNone)
    /\ WF_vars(AdvanceTime)

\* the state layer on its own: writer threads calling update_price at about
\* the same instant on an initially empty map
InitState ==
    /\ InitCommon
    /\ InitSubscriber
    /\ now = StartTime
    /\ run_end = StartTime
    /\ prices = <<>>
    /\ coordinators = {}
    /\ coordinator_tx = 1
    /\ calc_rx = 1

NextState ==
    \/ \E t \in Threads, pool \in Pools, price \in Prices, slot \in 0 .. MaxSlot :
            UpdateGet(t, pool, price, slot)
    \/ \E t \in Threads : UpdateInsert(t)
    \/ \E t \in Threads : UpdateSend(t)

SpecState == InitState /\ [][NextState]_vars

\* ------------------------------------------------------------------------
\* amm_calculator (dex_interface.rs)
\* ------------------------------------------------------------------------
U64 == 2 ^ WordBits

U128 == 2 ^ (2 * WordBits)

\* calculate_amm_output on integers: products and the sum are u128, where an
\* overflow wraps in a release build and panics in a debug build; the
\* quotient is cast to u64.  The result is a set: the outcomes the build can
\* produce.
calculate_amm_output_u64(amount_in, reserve_in, reserve_out, fee_numerator, fee_denominator) ==
    IF amount_in = 0 \/ reserve_in = 0 \/ reserve_out = 0
    THEN {[pc |-> "returned", out |-> 0]}
    ELSE LET amount_in_with_fee == amount_in * (fee_denominator - fee_numerator)
             numerator == amount_in_with_fee * reserve_out
             denominator == reserve_in * fee_denominator + amount_in_with_fee
         IN  IF amount_in_with_fee < U128 /\ numerator < U128 /\ denominator < U128
             THEN {[pc |-> "returned", out |-> (numerator \div denominator) % U64]}
             ELSE {[pc |-> "panicked"]} \cup
                  (IF denominator % U128 = 0
                   THEN {}
                   ELSE {[pc |-> "returned",
                          out |-> ((numerator % U128) \div (denominator % U128)) % U64]})

\* a quotient n / d rounded to the nearest integer, ties to even
round_half_even(n, d) ==
    LET q == n \div d
        r == n % d
    IN  IF 2 * r > d \/ (2 * r = d /\ q % 2 = 1) THEN q + 1 ELSE q

\* Floating-point numbers are counted in units of 2^-FractionBits, the
\* smallest positive number of the format; a number has MantissaBits
\* significant bits, fewer below 2^MantissaBits units (the subnormal range).
\* fl(n, d) is the number nearest to n / d units (n >= 0, d > 0), ties to even.
fl(n, d) ==
    LET bits == {b \in 0 .. 30 : 2 ^ b <= n \div d}
        top == IF bits = {} THEN 0 ELSE CHOOSE b \in bits : \A c \in bits : c <= b
        ulp == IF top >= MantissaBits THEN 2 ^ (top - MantissaBits + 1) ELSE 1
    IN  round_half_even(n, d * ulp) * ulp

\* 1.0
one == 2 ^ FractionBits

\* the integer k as a floating-point number
fl_int(k) == fl(k * one, 1)

\* calculate_amm_output_f64: every operation rounds its exact result
calculate_amm_output_f64(amount_in, reserve_in, reserve_out, fee_rate) ==
    IF amount_in <= 0 \/ reserve_in <= 0 \/ reserve_out <= 0
    THEN 0
    ELSE LET amount_in_with_fee == fl(amount_in * fl(one - fee_rate, 1), one)
             numerator == fl(amount_in_with_fee * reserve_out, one)
             denominator == fl(reserve_in + amount_in_with_fee, 1)
         IN  fl(numerator * one, denominator)

\* fee_numerator / fee_denominator of the integer calls
FeeDenominator == 4

\* amounts and reserves of the floating-point calls, each a floating-point
\* number of the model
FloatAmounts == {fl_int(k) : k \in {1, 2, 3, 5, 8, 32}}

\* fee rates of the floating-point calls: 0, 1/16 and 1/4
FeeRates == {0, one \div 16, one \div 4}

call_calculate_amm_output(amount_in, reserve_in, reserve_out, fee_numerator) ==
    /\ amm.pc = "call"
    /\ \E result \in calculate_amm_output_u64(amount_in, reserve_in, reserve_out,
                                              fee_numerator, FeeDenominator) :
          amm' = [pc |-> result.pc, function |-> "calculate_amm_output",
                  amount_in |-> amount_in, reserve_in |-> reserve_in,
                  reserve_out |-> reserve_out, fee_numerator |-> fee_numerator,
                  out |-> IF result.pc = "returned" THEN result.out ELSE 0]
    /\ UNCHANGED <<coordVars, stateVars, subVars, scanVars, eventVars>>

call_calculate_amm_output_f64(amount_in, reserve_in, reserve_out, fee_rate) ==
    /\ amm.pc = "call"
    /\ amm' = [pc |-> "returned", function |-> "calculate_amm_output_f64",
               amount_in |-> amount_in, reserve_in |-> reserve_in,
               reserve_out |-> reserve_out, fee_rate |-> fee_rate,
               out |-> calculate_amm_output_f64(amount_in, reserve_in, reserve_out, fee_rate)]
    /\ UNCHANGED <<coordVars, stateVars, subVars, scanVars, eventVars>>

NextAmm ==
    \/ \E amount_in, reserve_in, reserve_out \in 0 .. U64 - 1,
          fee_numerator \in 0 .. FeeDenominator - 1 :
            call_calculate_amm_output(amount_in, reserve_in, reserve_out, fee_numerator)
    \/ \E amount_in, reserve_in, reserve_out \in FloatAmounts, fee_rate \in FeeRates :
            call_calculate_amm_output_f64(amount_in, reserve_in, reserve_out, fee_rate)

SpecAmm == InitState /\ [][NextAmm]_vars

\* the WebSocket task writing decoded pools through update_cache_from_pool
NextChange ==
    \E pool \in Pools, price \in Prices, slot \in 0 .. MaxSlot, keeps_zero_price \in BOOLEAN :
        update_cache_from_pool(pool, price, slot, keeps_zero_price)

SpecChange == InitState /\ [][NextChange]_vars

\* the snapshot query as a function of the map and the clock: the map holds
\* any entries earlier updates can have left, the reader calls at any instant
StoredMaps(t) ==
    UNION {[D -> [price : Prices, last_update : StartTime .. t,
                  slot : 0 .. MaxSlot]] : D \in SUBSET Pools}

InitSnapshot ==
    /\ InitCommon
    /\ InitSubscriber
    /\ coordinators = {}
    /\ coordinator_tx = 1
    /\ calc_rx = 1
    /\ now \in StartTime .. StateMaxTime
    /\ run_end = now
    /\ \E m \in StoredMaps(now) :
          prices = [p \in DOMAIN m |->
                      [pool_id |-> p, price |-> m[p].price,
                       last_update |-> m[p].last_update, slot |-> m[p].slot]]

NextSnapshot ==
    \E a \in 0 .. MaxAgeMs, sp \in 0 .. MaxSpread : TakeSnapshot(a, sp)

SpecSnapshot == InitSnapshot /\ [][NextSnapshot]_vars

\* a reader takes snapshots while writer threads call update_price
NextSnapshotRace ==
    \/ \E t \in Threads, pool \in Pools, price \in Prices \ {0}, slot \in 1 .. MaxSlot + 1 :
            UpdateGet(t, pool, price, slot)
    \/ \E t \in Threads : UpdateInsert(t)
    \/ \E t \in Threads : UpdateSend(t)
    \/ \E max_age_ms \in 0 .. MaxAgeMs, max_slot_spread \in 0 .. MaxSpread :
            SnapshotLatestSlot(max_age_ms, max_slot_spread)
    \/ SnapshotFilter

SpecSnapshotRace == InitState /\ [][NextSnapshotRace]_vars

InitSub ==
    /\ InitCommon
    /\ InitSubscriber
    /\ now = StartTime
    /\ run_end = StartTime
    /\ prices = <<>>
    /\ coordinators = {}
    /\ coordinator_tx = 1
    /\ calc_rx = 1

NextSub ==
    \/ SubscribeVault
    \/ ServerConfirm
    \/ \E sid \in DOMAIN server_subs \cup {server_sid + 1},
          data \in PoolData \cup TokenData \cup MintData : Notify(sid, data)
    \/ N_Check
    \/ N_Cache
    \/ N_Register
    \/ N_Send
    \/ N_Reserves
    \/ N_Update
    \/ V_Check
    \/ V_Update
    \/ V_Lock
    \/ V_Collect
    \/ V_Decode
    \/ V_State
    \/ Drop
    \/ \E data \in RpcPoolData : P_Query(data)
    \/ P_Check
    \/ P_Register
    \/ P_Send
    \/ \E data \in RpcVaultData, slot \in RpcSlots : P_VaultA(data, slot)
    \/ \E data \in RpcVaultData : P_VaultB(data)
    \/ P_Lock
    \/ P_Recalc
    \/ P_Decode
    \/ P_Update

\* the token account an RPC fetch or a notification delivers for a vault
token(amount) == AccountData("token", FALSE, FALSE, 0, amount)

\* one Calculator::calculate call; CalculatorConfig::default has
\* bfs_max_hops = 3 and bf_max_hops = 6, the scanner's own tests also use a
\* bfs_max_hops of 4.  Every pool of the consistent snapshot is in the fresh
\* one; the fresh one is taken to hold nothing else unless the consistent
\* one is empty.
NextScan ==
    \/ \E pools \in ScanSnapshots :
          \E fresh \in IF pools = <<>> THEN ScanSnapshots ELSE {pools} :
              calculate_snapshot(pools, fresh)
    \/ \E bfs_max_hops \in {3, 4} : run_bfs(bfs_max_hops)
    \/ run_bellman_ford(bf_max_hops)
    \/ \E scanner \in {"bfs", "bf"} : scanner_panics(scanner)
    \/ calculate_return

SpecScan == InitSub /\ [][NextScan]_vars

\* a Calculator whose bf_max_hops is the hop count of the longest cycle its
\* pools can form, as in test_calculator_bf_only: 3 over ScanTokens
NextScanHops ==
    \/ \E pools \in ScanSnapshots \ {<<>>} : calculate_snapshot(pools, pools)
    \/ run_bfs(3)
    \/ run_bellman_ford(Cardinality(ScanTokens))
    \/ calculate_return

SpecScanHops == InitSub /\ [][NextScanHops]_vars

\* snapshots in which both scanners find something to rank: a triangle of
\* the three pairs, then up to MaxExtraPools more pools
RankedSnapshots ==
    UNION {{[i \in 1 .. 3 + n |->
                IF i = 1 THEN [pool_id |-> 1, base |-> "A", quote |-> "B", price |-> t[1]]
                ELSE IF i = 2 THEN [pool_id |-> 2, base |-> "B", quote |-> "C", price |-> t[2]]
                ELSE IF i = 3 THEN [pool_id |-> 3, base |-> "C", quote |-> "A", price |-> t[3]]
                ELSE [pool_id |-> i, base |-> f[i - 3][1], quote |-> f[i - 3][2],
                      price |-> f[i - 3][3]]] :
              t \in [1 .. 3 -> LogPrices],
              f \in [1 .. n -> {x \in ScanTokens \X ScanTokens \X LogPrices : x[1] # x[2]}]} :
           n \in 0 .. MaxExtraPools}

NextScanRanked ==
    \/ \E pools \in RankedSnapshots : calculate_snapshot(pools, pools)
    \/ run_bfs(4)
    \/ run_bellman_ford(bf_max_hops)
    \/ calculate_return

SpecScanRanked == InitSub /\ [][NextScanRanked]_vars

\* a Calculator::calculate call over a snapshot that holds pools with the
\* price 0
NextScanZero ==
    \/ \E pools \in ZeroPriceSnapshots : calculate_snapshot(pools, pools)
    \/ run_bfs(4)
    \/ run_bellman_ford(bf_max_hops)
    \/ calculate_return

SpecScanZero == InitSub /\ [][NextScanZero]_vars

\* extract_cycle called on any predecessor map, from token 0
NextWalk ==
    \E parent \in PredecessorMaps :
        extract_cycle_call(parent, Edge(1, 0, -1, [pool_id |-> 0]))

SpecWalk == InitSub /\ [][NextWalk]_vars

\* the first connection has ended with both pools confirmed (ids 1 and 2),
\* then the two vaults of pool1 (ids 3 and 4), and pool1 registered once
FirstConnectionEnded ==
    /\ InitCommon
    /\ now = StartTime
    /\ run_end = StartTime
    /\ coordinators = {}
    /\ coordinator_tx = 1
    /\ calc_rx = 1
    /\ conn = 1
    /\ server_subs = <<>>
    /\ server_pending = <<>>
    /\ server_sid = 4
    /\ subscription_map = [sid \in {1, 2} |-> [pool |-> PoolConfigs[sid], conn |-> 1]]
    /\ vault_pending_map = <<>>
    /\ vault_subscription_map =
           [sid \in {3, 4} |-> [address |-> get_vault_addresses("pool1")[sid - 2], conn |-> 1]]
    /\ vault_subscription_tx = FALSE
    /\ vault_rx = <<>>
    /\ next_subscription_id = Len(PoolConfigs) + VaultRequestIdBase + 2
    /\ ws = task_at("connect")
    /\ proactive = task_at("done")
    /\ held = [t \in Tasks |-> {}]

\* ... the proactive task registered pool1 and fetched both balances; no
\* notification came
RegisteredByProactive ==
    /\ vault_reader =
           fetched(fetched(register_pool_vaults(VaultReader_new, "pool1", "vaultA", "vaultB"),
                           "vaultA", token(MaxAmount)), "vaultB", token(MaxAmount))
    /\ pool_data_cache = <<>>
    /\ prices = <<>>
    /\ sub_log = [sub_log_new EXCEPT !.registrations["pool1"] = 1]

\* ... the first notification of pool1 registered it; the proactive task
\* could not decode the pool account it fetched
RegisteredByHandler ==
    /\ vault_reader = register_pool_vaults(VaultReader_new, "pool1", "vaultA", "vaultB")
    /\ pool_data_cache = hashmap_insert(<<>>, "pool1", AccountData("pool", TRUE, TRUE, 0, 0))
    /\ prices = insert(<<>>, "pool1", PoolPrice("pool1", 0, <<0, 0>>, chain_slot(0), StartTime))
    /\ sub_log = [sub_log_new EXCEPT !.registrations["pool1"] = 1, !.notified = 1,
                                     !.outcome = "pool", !.seen = {"pool1"}]

\* run_with_stream: the first connection is up, process_stream is in its
\* select loop
FirstConnectionUp ==
    /\ InitCommon
    /\ now = StartTime
    /\ run_end = StartTime
    /\ coordinators = {}
    /\ coordinator_tx = 1
    /\ calc_rx = 1
    /\ conn = 1
    /\ vault_pending_map = <<>>
    /\ vault_subscription_map = <<>>
    /\ vault_subscription_tx = TRUE
    /\ next_subscription_id = Len(PoolConfigs) + VaultRequestIdBase
    /\ ws = task_at("select")
    /\ held = [t \in Tasks |-> {}]

\* ... no subscription is confirmed yet and the proactive task has just been
\* spawned; one notification came, on a subscription id of no registry, and
\* was dropped
FirstDropped ==
    /\ server_pending = [i \in 1 .. Len(PoolConfigs) |-> [id |-> i, address |-> PoolConfigs[i]]]
    /\ server_subs = <<>>
    /\ server_sid = 0
    /\ subscription_map = <<>>
    /\ vault_rx = <<>>
    /\ proactive = task_at("p_query")
    /\ vault_reader = VaultReader_new
    /\ pool_data_cache = <<>>
    /\ prices = <<>>
    /\ sub_log = [sub_log_new EXCEPT !.notified = 1, !.outcome = "unknown"]

\* ... both pools are confirmed (ids 1 and 2), the proactive task could not
\* decode the pool account it fetched, and the first notification of pool1
\* has been handled: its two vault requests wait in the channel
FirstHandled ==
    /\ server_pending = <<>>
    /\ server_subs = [sid \in {1, 2} |-> PoolConfigs[sid]]
    /\ server_sid = 2
    /\ subscription_map = [sid \in {1, 2} |-> [pool |-> PoolConfigs[sid], conn |-> 1]]
    /\ vault_rx = <<get_vault_addresses("pool1")[1], get_vault_addresses("pool1")[2]>>
    /\ proactive = task_at("done")
    /\ RegisteredByHandler

\* the Subscriber on its first connection, one notification in
InitSubscribed ==
    /\ FirstConnectionUp
    /\ FirstDropped \/ FirstHandled

SpecSub == InitSubscribed /\ [][NextSub]_vars

\* the Subscriber between two connections
InitReconnect ==
    /\ FirstConnectionEnded
    /\ RegisteredByProactive \/ RegisteredByHandler

\* pool1 stays registered, so the proactive task never gets to P_Register and
\* P_Send here
NextReconnect ==
    \/ \E sid_base \in 0 .. MaxSidBase : Reconnect(sid_base)
    \/ SubscribeVault
    \/ ServerConfirm
    \/ \E sid \in DOMAIN server_subs \cup {server_sid + 1},
          data \in PoolData \cup TokenData \cup MintData : Notify(sid, data)
    \/ N_Check
    \/ N_Cache
    \/ N_Register
    \/ N_Send
    \/ N_Reserves
    \/ N_Update
    \/ V_Check
    \/ V_Update
    \/ V_Lock
    \/ V_Collect
    \/ V_Decode
    \/ V_State
    \/ \E data \in RpcPoolData : P_Query(data)
    \/ P_Check
    \/ \E data \in RpcVaultData, slot \in RpcSlots : P_VaultA(data, slot)
    \/ \E data \in RpcVaultData : P_VaultB(data)
    \/ P_Lock
    \/ P_Recalc
    \/ P_Decode
    \/ P_Update

SpecReconnect == InitReconnect /\ [][NextReconnect]_vars

\* ========================================================================
\* Properties
\* ========================================================================

\* C1: at any instant the Calculator is processing at most one
\* CalculationTask; the next task is taken from the calc channel only after
\* the scan of the previous one has finished.
C1_SingleFlight ==
    /\ Len(scanning) <= 1
    /\ (calc_pc = "recv") => (scanning = <<>>)

\* a scan is in progress and the next task is already waiting in the channel
C1_Witness ==
    /\ calc_pc = "scan"
    /\ Len(scanning) = 1
    /\ calc_ch[calc_rx] # <<>>

\* C2 (as claimed): while the Calculator is busy with a scan no task sits in
\* the calc channel: every task sent meanwhile is dropped and counted.
C2_NeverQueuedBehindScan ==
    (calc_pc = "scan") => (calc_ch[calc_rx] = <<>>)

\* C3 (as claimed): when a coordinator handles an above-threshold event after
\* the cooldown, with the Calculator idle and the calc channels empty, an
\* Event-triggered task is in the channel the Calculator receives from.
C3_EventTaskReachesCalculator ==
    [][\A c \in coordinators :
          ( /\ event_ch[c] # <<>>
            /\ event_ch'[c] = Tail(event_ch[c])
            /\ above_threshold(Head(event_ch[c]).price_change_percent)
            /\ cooldown_elapsed(duration_since(now, last_trigger[c]))
            /\ calc_pc = "recv"
            /\ \A k \in ChannelPairs : calc_ch[k] = <<>> )
          => \E i \in 1 .. Len(calc_ch'[calc_rx]) :
                calc_ch'[calc_rx][i].trigger_type = "Event"]_vars

\* C4: any two event-triggered tasks a Coordinator dispatches are at least
\* cooldown apart, so a burst of above-threshold events inside one cooldown
\* window yields at most one event-triggered task.
C4_Cooldown ==
    \A c \in ChannelPairs :
        \A i, j \in 1 .. Len(event_tasks[c]) :
            i < j => event_tasks[c][j].task.created_at
                        - event_tasks[c][i].task.created_at
                     >= from_millis(cooldown_ms)

\* two event-triggered tasks were dispatched and both entered the channel
C4_Witness ==
    \E c \in ChannelPairs :
        /\ Len(event_tasks[c]) = 2
        /\ event_tasks[c][1].sent
        /\ event_tasks[c][2].sent

\* C5: no event-triggered task is dispatched for an event whose change ratio
\* is less than or equal to the high threshold.
C5_Threshold ==
    \A c \in ChannelPairs :
        /\ \A i \in 1 .. Len(event_tasks[c]) :
              event_tasks[c][i].task.price_change_percent > high_threshold
        /\ \A i \in 1 .. Len(calc_ch[c]) :
              calc_ch[c][i].trigger_type = "Event"
                 => calc_ch[c][i].price_change_percent > high_threshold
        /\ Len(event_tasks[c]) <= stats[c].triggered_events

\* an event at or below the threshold was handled and ignored, and another
\* event was dispatched
C5_Witness ==
    \E c \in ChannelPairs :
        /\ stats[c].total_events > stats[c].triggered_events
        /\ Len(event_tasks[c]) >= 1

\* C6: with zero events, after a run of length T >= 2 * tick_interval the
\* Calculator has received at least floor(T / tick_interval) - 1 clock tasks,
\* counting the ticks skipped because the calc channel was full.
C6_FloorCadence ==
    LET T == now - StartTime
    IN  ( /\ stats[calc_rx].total_events = 0
          /\ T >= from_millis(2 * tick_interval_ms) )
        => calc_received.Clock + stats[calc_rx].failed_sends
              >= (T \div from_millis(tick_interval_ms)) - 1

\* the bound is met with equality, with tasks received and ticks skipped
C6_Witness ==
    LET T == now - StartTime
    IN  /\ stats[calc_rx].total_events = 0
        /\ T >= from_millis(2 * tick_interval_ms)
        /\ calc_received.Clock >= 1
        /\ stats[calc_rx].failed_sends >= 1
        /\ calc_received.Clock + stats[calc_rx].failed_sends
              = (T \div from_millis(tick_interval_ms)) - 1

\* C7: the first above-threshold event after the Coordinator is created is
\* never skipped for cooldown, however soon after start-up it arrives.
C7_FirstEventNotSuppressed ==
    \A c \in ChannelPairs :
        (stats[c].triggered_events = 1) => (stats[c].skipped_triggers = 0)

\* the first above-threshold event was handled at the start-up instant itself
\* and was dispatched
C7_Witness ==
    \E c \in ChannelPairs :
        /\ stats[c].triggered_events = 1
        /\ Len(event_tasks[c]) = 1
        /\ event_tasks[c][1].task.created_at = StartTime

\* the entries a snapshot returns according to the claim, with the age
\* compared as an exact duration
ExactAgeSnapshot(map, t, max_age_ms, max_slot_spread) ==
    LET L == get_latest_slot(map)
    IN  IF L = 0
        THEN {}
        ELSE {map[q] : q \in {r \in DOMAIN map :
                /\ t - map[r].last_update <= from_millis(max_age_ms)
                /\ L - map[r].slot <= max_slot_spread}}

\* the same with the age counted in whole milliseconds
WholeMsAgeSnapshot(map, t, max_age_ms, max_slot_spread) ==
    LET L == get_latest_slot(map)
    IN  IF L = 0
        THEN {}
        ELSE {map[q] : q \in {r \in DOMAIN map :
                /\ (t - map[r].last_update) \div TicksPerMs <= max_age_ms
                /\ L - map[r].slot <= max_slot_spread}}

\* C8 (as claimed): snapshot_consistent returns empty when latest_slot() is 0,
\* otherwise exactly the entries p with now - p.observed_at <= max_age and
\* L - p.slot <= max_slot_spread.
C8_SnapshotExactAge ==
    [][(snapshot'.call # snapshot.call)
        => snapshot'.result = ExactAgeSnapshot(prices, now,
                                  snapshot'.max_age_ms,
                                  snapshot'.max_slot_spread)]_vars

\* C8 (amended): snapshot_consistent returns empty when latest_slot() is 0,
\* otherwise exactly the entries p whose age now - p.observed_at, truncated to
\* whole milliseconds, is <= max_age and with L - p.slot <= max_slot_spread.
C8_SnapshotWholeMsAge ==
    [][(snapshot'.call # snapshot.call)
        => snapshot'.result = WholeMsAgeSnapshot(prices, now,
                                  snapshot'.max_age_ms,
                                  snapshot'.max_slot_spread)]_vars

\* a snapshot over two entries returned one of them and left the other out
C8_Witness ==
    /\ snapshot.taken
    /\ Cardinality(DOMAIN prices) = 2
    /\ Cardinality(snapshot.result) = 1

\* C9 (as claimed): the slot stored for a pool never decreases.
C9_SlotNeverDecreases ==
    [][\A p \in DOMAIN prices : prices'[p].slot >= prices[p].slot]_vars

\* C10 (as claimed): the old price in each published event is the price that
\* the event's own write replaced.
C10_OldPriceIsReplacedPrice ==
    \A i \in 1 .. Len(update_events) :
        update_events[i].old_price = update_events[i].replaced

\* ------------------------------------------------------------------------
\* Subscriber claims
\* ------------------------------------------------------------------------

\* C11 (as claimed): after a connection drop every subscription_id binding of
\* the old connection is invalidated: a notification received on a
\* subscription of the new connection is never routed by a binding that was
\* made on an earlier connection.
C11_NoStaleBindingRoutes == ~sub_log.stale_route

\* the accounts the server holds a subscription for on this connection
Subscribed == {server_subs[sid] : sid \in DOMAIN server_subs}

\* nothing is in progress on the connection: both tasks are at rest, no
\* request is queued and no confirmation is outstanding
Quiescent ==
    /\ ws.pc = "select"
    /\ proactive.pc = "done"
    /\ vault_rx = <<>>
    /\ server_pending = <<>>

\* C12 (as claimed): after a connection drop and reconnect the vault accounts
\* of every vault-linked pool are subscribed again: once a pool was committed
\* from a notification of the new connection and nothing is in progress any
\* more, the server holds a subscription for both of its vaults.
C12_VaultsSubscribedAgain ==
    (conn > 1 /\ Quiescent) =>
        \A p \in sub_log.seen :
            /\ get_vault_addresses(p)[1] \in Subscribed
            /\ get_vault_addresses(p)[2] \in Subscribed

\* the pools named in a list of (config, cached bytes) pairs
pools_of(cd) == {cd[i].pool : i \in 1 .. Len(cd)}

\* C13 (as claimed): when a vault-account update for a registered vault is
\* handled, every pool that references the vault is taken on for
\* recomputation, and each is written to the State Layer with the reserves
\* read from the VaultReader and the slot of the vault notification.
C13_VaultUpdateRewritesPools ==
    [][/\ (ws.pc = "v_collect" /\ ws' # ws) =>
              /\ ws'.pc = "v_decode"
              /\ pools_of(ws'.todo) = {ws.todo[i] : i \in 1 .. Len(ws.todo)}
       /\ (ws.pc = "v_state" /\ ws' # ws) =>
              /\ prices'[ws.pool].slot = ws.slot
              /\ prices'[ws.pool].base_reserve = ws.reserves[1]
              /\ prices'[ws.pool].quote_reserve = ws.reserves[2]]_vars

\* C14 (as claimed): the check and the registration of a vault-linked pool are
\* one atomic step, so of two handlers that see the same unregistered pool
\* exactly one registers its vaults (and issues the requests): no pool is ever
\* registered twice.
C14_RegisteredOnce == \A p \in Pools : sub_log.registrations[p] <= 1

\* C15: when a pool is recomputed after a vault update (handle_vault_update)
\* or after a balance fetch (trigger_pool_price_recalculation), the task holds
\* none of the Subscriber's locks when it decodes the pool and when it calls
\* the State Layer update.
C15_NoLockWhileRecomputing ==
    /\ ws.pc \in {"v_decode", "v_state"} => held["ws"] = {}
    /\ proactive.pc \in {"p_decode", "p_update"} => held["proactive"] = {}

\* a vault update has led to a pool that is about to be rewritten
C15_Witness ==
    /\ ws.pc = "v_state"
    /\ ws.pool \in DOMAIN pool_data_cache
    /\ ws.vault \in DOMAIN vault_reader.vaults

\* C16 (as claimed): the first notification of a vault-linked pool commits the
\* pool to the State Layer with mid_price 0.
C16_FirstCommitPriceZero ==
    [][(ws.pc = "n_update" /\ ws.first /\ ws' # ws) => prices'[ws.pool].price = 0]_vars

\* C16 (amended): a pool notification that finds the pool's vault pair
\* unregistered registers both vaults, issues two vault subscribe requests and
\* commits the pool to the State Layer within the handling of that
\* notification, without waiting for any vault balance.  The committed
\* mid_price is the decoder's own price when that is not 0; otherwise it is
\* quote / base of the reserves read from the VaultReader when both are
\* positive, and 0 otherwise.
C16_FirstCommit ==
    [][/\ (ws.pc = "n_cache" /\ ws' # ws) => ws'.pc = "n_register"
       /\ (ws.pc = "n_register" /\ ws' # ws) =>
              /\ ws'.pc = "n_send"
              /\ get_vault_addresses(ws.pool)[1] \in DOMAIN vault_reader'.vaults
              /\ get_vault_addresses(ws.pool)[2] \in DOMAIN vault_reader'.vaults
       /\ (ws.pc = "n_send" /\ ws' # ws) =>
              /\ ws'.pc = "n_reserves"
              /\ vault_rx' = vault_rx \o <<get_vault_addresses(ws.pool)[1],
                                           get_vault_addresses(ws.pool)[2]>>
       /\ (ws.pc = "n_reserves" /\ ws' # ws) => ws'.pc = "n_update"
       /\ (ws.pc = "n_update" /\ ws.first /\ ws' # ws) =>
              /\ ws'.pc = "select"
              /\ ws.pool \in DOMAIN prices'
              /\ prices'[ws.pool].slot = ws.slot
              /\ prices'[ws.pool].price =
                     IF ws.data.price # 0 THEN ws.data.price
                     ELSE IF ws.reserves[1] > 0 /\ ws.reserves[2] > 0
                          THEN (ws.reserves[2] * PriceUnit) \div ws.reserves[1]
                          ELSE 0]_vars

\* the first notification of pool2 registered its vaults and committed the
\* pool with the price its decoder computed
C16_Witness ==
    /\ sub_log.notified = 2
    /\ ws.pc = "select"
    /\ "pool2" \in DOMAIN pool_data_cache
    /\ "pool2" \in DOMAIN prices
    /\ prices["pool2"].price = DecoderPrice
    /\ vault_already_registered(vault_reader, "pool2")

\* ------------------------------------------------------------------------
\* The vault handlers on their own: handle_vault_update is applied to any
\* vault address, registered or not, next to the pool notifications of a
\* connection on which both pools are confirmed.
\* ------------------------------------------------------------------------

\* handle_vault_update is entered for this vault address and these bytes
VaultNotification(vault, data) ==
    /\ ws.pc = "select"
    /\ sub_log.notified < MaxNotifications
    /\ ws' = [task_at("v_check") EXCEPT !.vault = vault, !.data = data,
                                        !.slot = chain_slot(sub_log.notified)]
    /\ sub_log' = [sub_log EXCEPT !.notified = @ + 1, !.outcome = "vault"]
    /\ wsFrame
    /\ UNCHANGED <<vault_reader, pool_data_cache, vault_subscription_tx, vault_rx, held, prices>>

\* the first connection with both pools confirmed; the proactive fetch got
\* nothing it could decode
InitVault ==
    /\ InitCommon
    /\ now = StartTime
    /\ run_end = StartTime
    /\ prices = <<>>
    /\ coordinators = {}
    /\ coordinator_tx = 1
    /\ calc_rx = 1
    /\ conn = 1
    /\ server_subs = [sid \in {1, 2} |-> PoolConfigs[sid]]
    /\ server_pending = <<>>
    /\ server_sid = 2
    /\ subscription_map = [sid \in {1, 2} |-> [pool |-> PoolConfigs[sid], conn |-> 1]]
    /\ vault_pending_map = <<>>
    /\ vault_subscription_map = <<>>
    /\ vault_reader = VaultReader_new
    /\ pool_data_cache = <<>>
    /\ vault_subscription_tx = TRUE
    /\ vault_rx = <<>>
    /\ next_subscription_id = Len(PoolConfigs) + VaultRequestIdBase
    /\ ws = task_at("select")
    /\ proactive = task_at("done")
    /\ held = [t \in Tasks |-> {}]
    /\ sub_log = sub_log_new

NextVault ==
    \/ \E vault \in Vaults, data \in TokenData : VaultNotification(vault, data)
    \/ \E sid \in DOMAIN server_subs, data \in PoolData : Notify(sid, data)
    \/ N_Check
    \/ N_Cache
    \/ N_Register
    \/ N_Send
    \/ N_Reserves
    \/ N_Update
    \/ V_Check
    \/ V_Update
    \/ V_Lock
    \/ V_Collect
    \/ V_Decode
    \/ V_State

SpecVault == InitVault /\ [][NextVault]_vars

\* C17 (as claimed): a vault notification for a vault no pool has declared yet
\* is stored, and when a pool later declares a vault the amount stored for it
\* is the pool's reserve: registration leaves a stored amount as it is.
C17_EarlyVaultUpdateKept ==
    [][/\ (/\ ws.pc = "v_check"
           /\ ws' # ws
           /\ ws.data.kind = "token"
           /\ ~is_vault_account(vault_reader, ws.vault)) =>
              /\ is_vault_account(vault_reader', ws.vault)
              /\ vault_reader'.vaults[ws.vault] = ws.data.amount
       /\ (ws.pc = "n_register" /\ ws' # ws) =>
              \A i \in {1, 2} :
                  is_vault_account(vault_reader, get_vault_addresses(ws.pool)[i]) =>
                      get_pool_reserves(vault_reader', ws.pool)[i] =
                          vault_reader.vaults[get_vault_addresses(ws.pool)[i]]]_vars

\* C18: a notification that fails to decode, or whose subscription id is in
\* no registry, is dropped: its handling ends at once and the State Layer
\* entry of every pool is exactly what it was.
C18_DroppedNotificationKeepsState ==
    [][(/\ sub_log'.notified # sub_log.notified
        /\ sub_log'.outcome \in {"decode_failed", "unknown", "ignored"}) =>
           /\ prices' = prices
           /\ ws'.pc = "select"]_vars

\* a pool that has an entry in the State Layer sent bytes that do not decode
C18_Witness ==
    /\ sub_log.outcome = "decode_failed"
    /\ ws.pc = "select"
    /\ DOMAIN prices # {}

C20_NoRepeatedPoolSequence ==
    \A i, j \in DOMAIN scan.returned :
        i # j => [k \in DOMAIN scan.returned[i].steps |-> scan.returned[i].steps[k].pool_id]
                 # [k \in DOMAIN scan.returned[j].steps |-> scan.returned[j].steps[k].pool_id]

\* the scanners found one sequence of pools more than once and the scan
\* returned it
C20_Witness ==
    /\ scan.pc = "done"
    /\ scan.returned # <<>>
    /\ Len(scan.returned) < Len(scan.bfs_paths) + Len(scan.bf_paths)

gain_from(pool, from) == IF from = pool.base THEN pool.price ELSE 0 - pool.price

\* pools i and j trade the same pair and a round trip, out through i and
\* back through j, ends with more than it began with
round_trip_gains(pools, i, j) ==
    /\ i # j
    /\ {pools[i].base, pools[i].quote} = {pools[j].base, pools[j].quote}
    /\ gain_from(pools[i], pools[i].base) + gain_from(pools[j], pools[i].quote) >= 1

\* C22: when two pools of the snapshot trade the same pair at prices far
\* enough apart, the BFS scanner returns a cycle of exactly 2 hops with a
\* positive net profit
C22_TwoHopCycleReturned ==
    (/\ scan.pc \in {"bf", "dedup", "done"}
     /\ \E i, j \in DOMAIN scan_pools : round_trip_gains(scan_pools, i, j))
        => \E k \in DOMAIN scan.bfs_paths :
               Len(scan.bfs_paths[k].steps) = 2 /\ scan.bfs_paths[k].gain >= 1

\* pool trades the pair of tokens x and y
trades(pool, x, y) == {pool.base, pool.quote} = {x, y}

\* three pools of the snapshot close a triangle x -> y -> z -> x that ends
\* with more than it began with
triangle_gains(pools) ==
    \E i, j, k \in DOMAIN pools : \E x, y, z \in ScanTokens :
        /\ Cardinality({i, j, k}) = 3 /\ Cardinality({x, y, z}) = 3
        /\ trades(pools[i], x, y) /\ trades(pools[j], y, z) /\ trades(pools[k], z, x)
        /\ gain_from(pools[i], x) + gain_from(pools[j], y) + gain_from(pools[k], z) >= 1

\* C23: a BFS scan with max_depth = 3, the default, over a snapshot that
\* holds a profitable triangle of three pools returns a path of 3 hops
C23_DefaultDepthFindsTriangle ==
    (/\ scan.pc \in {"bf", "dedup", "done"}
     /\ scan.bfs_max_hops = 3
     /\ triangle_gains(scan_pools))
        => \E n \in DOMAIN scan.bfs_paths :
               Len(scan.bfs_paths[n].steps) = scan.bfs_max_hops

\* C24: the Bellman-Ford scanner accepts a negative cycle of exactly
\* max_hops hops: run with max_hops = 3 over a snapshot that holds a
\* profitable triangle, it returns a path of 3 hops
C24_MaxHopsCycleAccepted ==
    (/\ scan.pc \in {"dedup", "done"}
     /\ scan.bf_max_hops = 3
     /\ triangle_gains(scan_pools))
        => \E n \in DOMAIN scan.bf_paths :
               Len(scan.bf_paths[n].steps) = scan.bf_max_hops

\* C25: when the consistent snapshot is empty the Calculator scans the
\* fresh snapshot: a call whose fresh snapshot holds pools does not go on
\* with an empty snapshot
C25_FreshSnapshotScanned ==
    (scan.pc # "snapshot" /\ scan.fresh # <<>>) => (scan_pools # <<>>)

\* C26: a scanner's panic is caught: no Calculator::calculate call ends by
\* unwinding, so what the other scanner found is still returned
C26_ScannerFailureCaught == scan.pc # "panicked"

\* ArbitragePath::score of a is higher than that of b whatever the amounts:
\* the score grows with the net profit and the ROI and falls with the hops
scores_higher(a, b) ==
    \/ a.gain > b.gain /\ Len(a.steps) <= Len(b.steps)
    \/ a.gain >= b.gain /\ Len(a.steps) < Len(b.steps)

\* C27: the list a scan returns is in descending order of score: no path
\* scores higher than a path before it
C27_ReturnedSortedByScore ==
    \A i, j \in DOMAIN scan.returned :
        i < j => ~scores_higher(scan.returned[j], scan.returned[i])

below_policy(event) ==
    /\ event.old_price # None
    /\ \/ event.old_price = 0 /\ event.new_price = 0
       \/ /\ event.old_price # 0
          /\ event.new_price # 0
          /\ (IF event.new_price >= event.old_price
              THEN event.new_price - event.old_price
              ELSE event.old_price - event.new_price) * 100000 < event.old_price

C30_FirstAndCrossingAreFullChange ==
    /\ \A i \in 1 .. Len(update_events) :
            (\/ update_events[i].old_price = None
             \/ (update_events[i].old_price = 0) # (update_events[i].new_price = 0))
                => update_events[i].price_change_percent = 100 * 10000
    /\ \A i \in 1 .. Len(price_change_events) :
            (\/ price_change_events[i].last_price = None
             \/ (price_change_events[i].last_price = 0) # (price_change_events[i].new_price = 0))
                => price_change_events[i].price_change_percent = 1000000


\* C31: the change reported for an update is the change against the price
\* the preceding update of the same pool stored (the entry this update
\* replaced), so an update that leaves the price unchanged reports 0
C31_ChangeAgainstPrecedingUpdate ==
    /\ \A i \in 1 .. Len(update_events) :
            update_events[i].price_change_percent =
                price_change(update_events[i].replaced, update_events[i].new_price)
    /\ \A i \in 1 .. Len(price_change_events) :
            /\ price_change_events[i].price_change_percent =
                  ws_price_change(price_change_events[i].replaced,
                                  price_change_events[i].new_price)
            /\ price_change_events[i].replaced = price_change_events[i].new_price
                  => price_change_events[i].price_change_percent = 0

\* ------------------------------------------------------------------------
\* Shutdown
\* ------------------------------------------------------------------------
\* the run loop of a Coordinator whose event channel or calc channel is
\* closed comes to an end
coordinator_ends_when_closed ==
    \A c \in ChannelPairs :
        (c \in coordinators /\ (c \in closed.event_tx \/ c \in closed.calc_rx))
            ~> (c \notin coordinators)

\* the receive loop of the Calculator ends once every calc_tx is dropped
calculator_ends_when_closed ==
    (calc_rx \in closed.calc_tx /\ calc_pc \in {"recv", "scan"})
        ~> (calc_pc \notin {"recv", "scan"})

\* C32: on shutdown, dropping the channels terminates the downstream loops:
\* the Coordinator's run loop ends once its event channel or its calc channel
\* is closed, and the Calculator's receive loop ends once the calc channel is
\* closed
C32_ClosedChannelsEndLoops ==
    /\ coordinator_ends_when_closed
    /\ calculator_ends_when_closed

\* ------------------------------------------------------------------------
\* Calculator busy
\* ------------------------------------------------------------------------
\* ticks the interval of Coordinator c has completed
ticks_fired(c) ==
    (next_tick[c] - interval_first_tick(StartTime)) \div from_millis(tick_interval_ms)

\* tasks taken out of the calc channel of pair c
received_from(c) ==
    IF c = calc_rx THEN calc_received.Clock + calc_received.Event ELSE 0

product_kept_u64 ==
    (amm.reserve_in * FeeDenominator + amm.amount_in * (FeeDenominator - amm.fee_numerator))
        * (amm.reserve_out - amm.out)
    >= amm.reserve_in * amm.reserve_out * FeeDenominator

\* the same for a floating-point call, whose numbers are counted in units of
\* 2^-FractionBits; the products are exact
product_kept_f64 ==
    (amm.reserve_in * one + amm.amount_in * (one - amm.fee_rate))
        * (amm.reserve_out - amm.out)
    >= amm.reserve_in * amm.reserve_out * one

\* C34: for every constant-product pool and every amount_in > 0 the computed
\* output keeps the reserve product: a swap never lowers it
C34_SwapKeepsReserveProduct ==
    (amm.pc = "returned" /\ amm.amount_in > 0)
        => IF amm.function = "calculate_amm_output"
           THEN product_kept_u64
           ELSE product_kept_f64

\* C35: after a Coordinator has run for more than two tick intervals with
\* no events and with nothing received from its calc channel, the channel
\* yields at least two Clock-triggered tasks when drained
C35_DrainYieldsTwoClockTasks ==
    \A c \in coordinators :
        ( /\ now - StartTime > from_millis(2 * tick_interval_ms)
          /\ stats[c].total_events = 0
          /\ received_from(c) = 0 )
            => Cardinality({i \in 1 .. Len(calc_ch[c]) :
                                calc_ch[c][i].trigger_type = "Clock"}) >= 2

\* C36: a snapshot returned by get_consistent_snapshot, also one taken while
\* updates run, holds no two entries whose slots differ by more than
\* max_slot_spread
C36_SnapshotSlotsWithinSpread ==
    snapshot.taken
        => \A p, q \in snapshot.result : p.slot - q.slot <= snapshot.max_slot_spread

\* C37: every path the Bellman-Ford scanner returns is a connected closed
\* walk: the first step's input token is start_token, each step's output
\* token is the next step's input token, the last step's output token is
\* end_token
C37_BellmanFordPathConnected ==
    \A i \in DOMAIN scan.bf_paths :
        LET path == scan.bf_paths[i]
        IN  /\ path.steps # <<>>
            /\ path.steps[1].input_token = path.start_token
            /\ \A k \in 1 .. Len(path.steps) - 1 :
                  path.steps[k].output_token = path.steps[k + 1].input_token
            /\ path.steps[Len(path.steps)].output_token = path.end_token

\* C38: registering a pool's vaults never changes the recorded balance of a
\* vault the VaultReader already knows, be it shared with another pool,
\* stored from an earlier notification or registered a second time
C38_RegistrationKeepsBalances ==
    [][(sub_log'.registrations # sub_log.registrations) =>
          \A vault \in DOMAIN vault_reader.vaults :
              vault_reader'.vaults[vault] = vault_reader.vaults[vault]]_vars

\* the mutex a task is about to take while it holds another one
waits_for(t) ==
    IF t = "ws" /\ ws.pc = "v_collect" /\ held[t] # {} THEN {collect_locks[2]}
    ELSE IF t = "proactive" /\ proactive.pc = "p_recalc" /\ held[t] # {} THEN {recalc_locks[2]}
    ELSE {}

\* C39: the Subscriber's tasks (the stream task handling pool and vault
\* notifications, and the proactive fetch) never block one another on its
\* mutexes: no two tasks each wait for a mutex the other holds, and a task
\* that takes a mutex while holding another always takes subscription_map
\* first and pool_data_cache inside it.
C39_OneLockOrder ==
    /\ \A t, u \in Tasks :
           ~ (t # u /\ waits_for(t) \cap held[u] # {} /\ waits_for(u) \cap held[t] # {})
    /\ \A t \in Tasks :
           waits_for(t) # {} => held[t] = {"subscription_map"} /\ waits_for(t) = {"pool_data_cache"}

\* the stream task is inside its snapshot section, holding subscription_map,
\* while the proactive task stands before its own
C39_Witness ==
    /\ ws.pc = "v_collect"
    /\ held["ws"] = {"subscription_map"}
    /\ proactive.pc = "p_recalc"
    /\ held["proactive"] = {}

\* the three-hop cycles of the graph of pools that leave start_token, pass two
\* other tokens and come back with a gain that passes min_roi_percent
passing_triangles(pools, start_token) ==
    LET graph == build_graph(pools)
    IN  {es \in [1 .. 3 -> {graph[k] : k \in DOMAIN graph}] :
            /\ es[1].from = start_token /\ es[3].to = start_token
            /\ es[1].to = es[2].from /\ es[2].to = es[3].from
            /\ Cardinality({es[1].from, es[2].from, es[3].from}) = 3
            /\ swap_along(0, es, 1) # NEG_INFINITY
            /\ swap_along(0, es, 1) >= 1}

\* C40: the early stop on the interim ROI of bfs_from_token drops no partial
\* path that would have closed into a cycle passing min_roi_percent: a BFS
\* scan deep enough to close a triangle (max_depth = 4) returns, for every
\* start token, every three-hop cycle from that token whose completed gain
\* passes the threshold.
C40_PruningKeepsPassingCycles ==
    (scan.pc \in {"bf", "dedup", "done"} /\ scan.bfs_max_hops = 4) =>
        \A start_token \in unique_tokens(scan_pools) :
            \A es \in passing_triangles(scan_pools, start_token) :
                \E n \in DOMAIN scan.bfs_paths :
                    /\ scan.bfs_paths[n].start_token = start_token
                    /\ Len(scan.bfs_paths[n].steps) = 3
                    /\ \A i \in 1 .. 3 :
                           /\ scan.bfs_paths[n].steps[i].pool_id = es[i].pool_id
                           /\ scan.bfs_paths[n].steps[i].input_token = es[i].from
====
